---- MODULE Spec2Model ----
(***************************************************************************)
(* PostgreSQL persistence components (pip-services3-postgres-gox).         *)
(*                                                                         *)
(* The model follows one persistence instance of the relational variant,  *)
(* IdentifiablePostgresPersistence[Dummy, string], working on one table    *)
(* ("id" TEXT PRIMARY KEY, "key" TEXT, "content" TEXT).  Every handler     *)
(* builds its SQL statement with the query builder and hands it to the     *)
(* database; the database is modelled by the Exec* operators.              *)
(*                                                                         *)
(* The repository holds two sources of the identifiable layer:             *)
(*   src/persistence/IdentifiablePostgresPersistence.go   ("persistence")  *)
(*   src/unnamed/part_003, lines 889-1216                 ("part_003")     *)
(* The variable implementation says which of them the instance is built    *)
(* from; the base layer (part_003, lines 12-887) is common to both.        *)
(*                                                                         *)
(* Further specifications follow the document variant (SpecJson), the      *)
(* connection component of src/connect/PostgresConnection.go               *)
(* (SpecConnection), the Open/Close lifecycle of two persistence instances *)
(* on owned or shared connections (SpecLifecycle), and two concurrent Open *)
(* calls taken statement by statement (SpecOpening).                       *)
(* The two-query reads are taken query by query beside a writing caller    *)
(* (SpecInterleaved); GetOneById of both variants reads tables with rows   *)
(* that cannot be decoded (SpecConvert); the statements of the writing     *)
(* handlers and of EnsureIndex are built for every input (SpecBuilder,     *)
(* SpecIndex); SetReferences and UnsetReferences join Open and Close in    *)
(* SpecReferences.                                                         *)
(***************************************************************************)
EXTENDS Integers, Sequences, FiniteSets, TLC

\* ------------------------------------------------------------------ bounds
MaxGen == 2        \* ids the id generator hands out in one behaviour
MaxRows == 3       \* rows the table holds at most
MaxIds == 2        \* length of the ids list of DeleteByIds
MaxTake == 3       \* largest take of a paging request
SmallPageSize == 2 \* a configured options.max_page_size below MaxTake

\* ------------------------------------------------------- program constants
DefaultMaxPageSize == 100
EmptyTotalValue == -1

\* ------------------------------------------------------------------ values
NULL == "<NULL>"
UserIds == {"1", "2"}
GenIds == <<"g1", "g2", "g3", "g4">>
Keys == {"A", "B"}
Contents == {"x"}
Columns == {"id", "key", "content"}

\* SQLSTATE codes of the statement failures the model produces; NoError is nil
NoError == ""
UniqueViolation == "23505"
NotNullViolation == "23502"
SyntaxError == "42601"
\* A Go panic that unwinds the handler instead of a returned error
Panic == "panic"

\* The zero value of the entity type (fixtures.Dummy)
ZeroItem == [id |-> "", key |-> "", content |-> ""]

VARIABLES
    table,          \* rows of the table: a set of records over Columns
    nextId,         \* number of ids the id generator has handed out
    implementation, \* "persistence" or "part_003": the identifiable layer in use
    maxPageSize,    \* c.MaxPageSize
    call,           \* the last call: [op |-> name, ...arguments]
    ret,            \* what the last call returned
    pre,            \* the table when the last call started
    conns,          \* the PostgresConnection components, by name
    pools,          \* the pgx pools that are established and not closed
    poolCount,      \* number of pools established so far
    pers,           \* the PostgresPersistence instances, by number
    catalog,        \* names of the relations the database holds
    executed,       \* schema statements sent so far: <<instance, statement, error>>
    opening         \* position of each instance inside CreateSchema

storeVars == <<table, nextId, implementation, maxPageSize>>
lifecycleVars == <<conns, pools, poolCount, pers, catalog, executed, opening>>
vars == <<table, nextId, implementation, maxPageSize, call, ret, pre,
          conns, pools, poolCount, pers, catalog, executed, opening>>

\* ----------------------------------------------------------------- helpers
Range(s) == {s[i] : i \in 1..Len(s)}

\* All orders in which the keys S of a Go map can be iterated
Perms(S) ==
    {s \in [1..Cardinality(S) -> S] : \A i, j \in 1..Cardinality(S) : s[i] = s[j] => i = j}

Pos(s, x) == CHOOSE i \in 1..Len(s) : s[i] = x

SeqsUpTo(S, n) == UNION {[1..k -> S] : k \in 0..n}

Ids(tbl) == {r.id : r \in tbl}

\* ------------------------------------------------------------ id generator
\* cdata.IdGenerator: the n-th id handed out
NextId(n) == GenIds[n + 1]

\* An id is unset when it is the zero value of the key type
IsUnset(id) == id = "" \/ id = NULL

\* --------------------------------------------------------------- converter
\* Relational converter: the entity is serialised to JSON and read back as a
\* map, so every json-tagged field becomes a column, zero values included.
ConvertFromPublic(item) == [c \in Columns |-> item[c]]

\* A stored value that the entity's field cannot take (a number or an object
\* where T has a string): decoding the JSON text into T fails on it
Malformed == "<malformed>"
Undecodable(buf) == \E k \in DOMAIN buf : buf[k] = Malformed

\* JsonConvertor.FromJson: the decoded value, or the default value of T beside
\* the error when the text cannot be decoded
FromJson(buf, defaultValue, decoded) == IF Undecodable(buf) THEN defaultValue ELSE decoded

\* ConvertToPublic that keeps the fields it could decode
ConvertToPublic_partial(row) ==
    [c \in Columns |-> IF row[c] \in {NULL, Malformed} THEN "" ELSE row[c]]

\* A fetched row is serialised to JSON and read back as the entity: a NULL
\* column leaves the field at its zero value; the error of FromJson is dropped.
ConvertToPublic(row) ==
    FromJson(row, ZeroItem, [c \in Columns |-> IF row[c] = NULL THEN "" ELSE row[c]])

\* ----------------------------------------------------------- query builder
\* GenerateColumns: the quoted column names in the map's iteration order
GenerateColumns(row, order) == order

\* GenerateParameters: placeholders $1..$n, n the number of keys of the map
GenerateParameters(row) == [i \in 1..Cardinality(DOMAIN row) |-> i]

\* A key of a row projection that has a comma in it
CommaColumn == "key,content"

\* strings.Split(strings.ReplaceAll(columns, "\"", ""), ","): the column list
\* is joined with commas and taken apart at every comma, those inside a name
\* included
SplitName(name) == IF name = CommaColumn THEN <<"key", "content">> ELSE <<name>>

RECURSIVE SplitColumns(_)
SplitColumns(columns) ==
    IF columns = <<>> THEN <<>>
    ELSE SplitName(Head(columns)) \o SplitColumns(Tail(columns))

\* GenerateValues: looks every name of the split column list up in the map;
\* a name the map does not have gives nil
GenerateValues(columns, row) ==
    LET columnNames == SplitColumns(columns)
    IN [i \in 1..Len(columnNames) |->
            IF columnNames[i] \in DOMAIN row THEN row[columnNames[i]] ELSE NULL]

\* GenerateSetParameters: "column"=$i for the i-th key of the map in its
\* iteration order, together with the column list in that same order
GenerateSetParameters(row, order) ==
    [setParams |-> [i \in 1..Len(order) |-> <<order[i], i>>], columns |-> order]

\* GenerateParameters[K] (package level): placeholders $1..$n for a list of n ids
GenerateParametersK(ids) == [i \in 1..Len(ids) |-> i]

\* ItemsToAnySlice: the same items, as a list of any
ItemsToAnySlice(items) == [i \in 1..Len(items) |-> items[i]]

\* The query builder the identifiable layer of src/persistence calls (it works
\* on a column list taken once from the map, and on a count):
\* GenerateColumnsAndValues: the keys of the map in its iteration order and
\* their values in that same order
GenerateColumnsAndValues(objMap, order) ==
    [columns |-> order, values |-> [i \in 1..Len(order) |-> objMap[order[i]]]]

\* GenerateParameters(n): placeholders $1..$n
GenerateParametersN(n) == [i \in 1..n |-> i]

\* GenerateColumns(columns): the quoted names of the column list, in its order
GenerateColumnsL(columns) == columns

\* GenerateSetParameters(columns): "column"=$i for the i-th column of the list
GenerateSetParametersL(columns) == [i \in 1..Len(columns) |-> <<columns[i], i>>]

\* -------------------------------------------------------------- PostgreSQL
\* The row a statement writes: column columns[j] takes the value bound to
\* placeholder params[j]; a column the statement does not name takes existing[c].
BoundRow(columns, params, values, existing) ==
    [c \in Columns |->
        IF c \in Range(columns) THEN values[params[Pos(columns, c)]] ELSE existing[c]]

NullRow == [c \in Columns |-> NULL]

\* A statement is well formed when it names at least one column, pairs every
\* column with a placeholder and binds every placeholder
WellFormed(columns, params, values) ==
    /\ Len(columns) > 0
    /\ Len(columns) = Len(params)
    /\ Range(params) \subseteq 1..Len(values)

\* The PRIMARY KEY constraint on "id": what adding newRows to the rows kept says
PrimaryKey(kept, newRows) ==
    IF \E r \in newRows : r.id = NULL THEN NotNullViolation
    ELSE IF \/ \E r \in newRows : r.id \in Ids(kept)
            \/ \E r1, r2 \in newRows : r1 # r2 /\ r1.id = r2.id
    THEN UniqueViolation
    ELSE NoError

Failed(tbl, code) == [tbl |-> tbl, rows |-> {}, err |-> code]

\* INSERT INTO t (columns) VALUES (params) RETURNING *
ExecInsert(tbl, columns, params, values) ==
    IF ~WellFormed(columns, params, values) THEN Failed(tbl, SyntaxError)
    ELSE LET row == BoundRow(columns, params, values, NullRow)
             pk == PrimaryKey(tbl, {row})
         IN IF pk # NoError THEN Failed(tbl, pk)
            ELSE [tbl |-> tbl \cup {row}, rows |-> {row}, err |-> NoError]

\* The columns and the placeholders of a SET list <<column, placeholder>>, ...
SetColumns(setParams) == [i \in 1..Len(setParams) |-> setParams[i][1]]
SetPlaceholders(setParams) == [i \in 1..Len(setParams) |-> setParams[i][2]]

\* UPDATE t SET setParams WHERE "id"=$whereParam RETURNING *
ExecUpdate(tbl, setParams, whereParam, values) ==
    IF \/ ~WellFormed(SetColumns(setParams), SetPlaceholders(setParams), values)
       \/ whereParam \notin 1..Len(values)
    THEN Failed(tbl, SyntaxError)
    ELSE LET id == values[whereParam]
             hit == {r \in tbl : id # NULL /\ r.id = id}
             new == {BoundRow(SetColumns(setParams), SetPlaceholders(setParams), values, r) : r \in hit}
             pk == PrimaryKey(tbl \ hit, new)
         IN IF hit = {} THEN [tbl |-> tbl, rows |-> {}, err |-> NoError]
            ELSE IF pk # NoError THEN Failed(tbl, pk)
            ELSE [tbl |-> (tbl \ hit) \cup new, rows |-> new, err |-> NoError]

\* INSERT INTO t (columns) VALUES (params)
\*   ON CONFLICT ("id") DO UPDATE SET setParams RETURNING *
ExecUpsert(tbl, columns, params, setParams, values) ==
    IF \/ ~WellFormed(columns, params, values)
       \/ ~WellFormed(SetColumns(setParams), SetPlaceholders(setParams), values)
    THEN Failed(tbl, SyntaxError)
    ELSE LET row == BoundRow(columns, params, values, NullRow)
             hit == {r \in tbl : r.id = row.id}
             new == {BoundRow(SetColumns(setParams), SetPlaceholders(setParams), values, r) : r \in hit}
             pk == PrimaryKey(tbl \ hit, IF hit = {} THEN {row} ELSE new)
         IN IF pk # NoError THEN Failed(tbl, pk)
            ELSE IF hit = {} THEN [tbl |-> tbl \cup {row}, rows |-> {row}, err |-> NoError]
            ELSE [tbl |-> (tbl \ hit) \cup new, rows |-> new, err |-> NoError]

\* SELECT * FROM t WHERE "id"=$1
ExecSelectById(tbl, id) ==
    [tbl |-> tbl, rows |-> {r \in tbl : id # NULL /\ r.id = id}, err |-> NoError]

\* DELETE FROM t WHERE "id"=$1 RETURNING *
ExecDeleteById(tbl, id) ==
    LET hit == {r \in tbl : id # NULL /\ r.id = id}
    IN [tbl |-> tbl \ hit, rows |-> hit, err |-> NoError]

\* DELETE FROM t WHERE "id" IN(params): an empty list IN() does not parse
ExecDeleteByIds(tbl, params, values) ==
    IF Len(params) = 0 \/ ~(Range(params) \subseteq 1..Len(values))
    THEN Failed(tbl, SyntaxError)
    ELSE LET named == {values[params[i]] : i \in 1..Len(params)} \ {NULL}
         IN [tbl |-> {r \in tbl : r.id \notin named}, rows |-> {}, err |-> NoError]

\* A filter fragment: "" stands for no WHERE clause, k for  key='k'
NoFilter == ""
Filters == {NoFilter} \cup Keys
Matches(row, filter) == filter = NoFilter \/ row.key = filter
Matching(tbl, filter) == {r \in tbl : Matches(r, filter)}

\* SELECT COUNT(*) AS count FROM t [WHERE filter]
ExecCount(tbl, filter) == Cardinality(Matching(tbl, filter))

\* SELECT * FROM t [WHERE filter] [OFFSET skip] LIMIT take, the rows being
\* scanned in the order scan (no ORDER BY: any order of the matching rows)
ExecSelect(scan, skip, take) ==
    LET from == IF skip >= 0 THEN skip ELSE 0
        upto == IF from + take < Len(scan) THEN from + take ELSE Len(scan)
    IN SubSeq(scan, from + 1, upto)

\* ---------------------------------------------------------------- handlers
\* What a handler returns after a statement with RETURNING * or a point
\* SELECT: the query error, else the zero value when no row came back, else
\* the first row converted.
OneRow(q) ==
    IF q.err # NoError THEN [item |-> ZeroItem, err |-> q.err]
    ELSE IF q.rows = {} THEN [item |-> ZeroItem, err |-> NoError]
    ELSE [item |-> ConvertToPublic(CHOOSE r \in q.rows : TRUE), err |-> NoError]

\* Ids a caller can name: the preset ones and those it has seen stored
KnownIds == UserIds \cup Ids(table)

Items == [id : KnownIds \cup {""}, key : Keys, content : Contents]

Idle == call.op = "None"

\* The frame of a handler: what it was called with, and the table it found
Called(c) ==
    /\ Idle
    /\ call' = c
    /\ pre' = table
    /\ UNCHANGED <<implementation, maxPageSize>>
    /\ UNCHANGED lifecycleVars

\* BaseCreate with the value list taken in another iteration of the map than
\* the column list
BaseCreate_desync(tbl, item, order) ==
    LET row == ConvertFromPublic(item)
        columns == GenerateColumns(row, order)
        params == GenerateParameters(row)
        values == GenerateValues(<<order[2], order[1], order[3]>>, row)
    IN ExecInsert(tbl, columns, params, values)

\* PostgresPersistence.Create
BaseCreate(tbl, item, order) ==
    LET row == ConvertFromPublic(item)
        columns == GenerateColumns(row, order)
        params == GenerateParameters(row)
        values == GenerateValues(columns, row)
    IN ExecInsert(tbl, columns, params, values)

\* GenerateObjectIdIfNotExists: the item, with a generated id when it has none
GenerateObjectIdIfNotExists(item, n) ==
    IF IsUnset(item.id) THEN [item EXCEPT !.id = NextId(n)] ELSE item

\* IdentifiablePostgresPersistence.Create
Create(item) ==
    /\ Called([op |-> "Create", item |-> item])
    /\ IsUnset(item.id) => nextId < MaxGen
    /\ \E order \in Perms(Columns) :
        LET newItem == GenerateObjectIdIfNotExists(item, nextId)
            q == BaseCreate(table, newItem, order)
        IN /\ Cardinality(q.tbl) <= MaxRows
           /\ table' = q.tbl
           /\ ret' = OneRow(q)
    /\ nextId' = IF IsUnset(item.id) THEN nextId + 1 ELSE nextId

\* IdentifiablePostgresPersistence.GetOneById: what it returns on the table tbl
OneById(tbl, id) == OneRow(ExecSelectById(tbl, id))

\* IdentifiablePostgresPersistence.GetOneById
GetOneById(id) ==
    /\ Called([op |-> "GetOneById", id |-> id])
    /\ ret' = OneById(table, id)
    /\ UNCHANGED <<table, nextId>>

\* GenerateObjectMapIdIfNotExists: the row projection, with a generated id
\* when it has none
GenerateObjectMapIdIfNotExists(objMap, n) ==
    IF IsUnset(objMap["id"]) THEN [objMap EXCEPT !["id"] = NextId(n)] ELSE objMap

\* IdentifiablePostgresPersistence.Set (src/persistence): the id is generated
\* into the row projection the statement is built from
Set_persistence(tbl, item, n, order) ==
    LET objMap == GenerateObjectMapIdIfNotExists(ConvertFromPublic(item), n)
        cv == GenerateColumnsAndValues(objMap, order)
        paramsStr == GenerateParametersN(Len(cv.values))
        columnsStr == GenerateColumnsL(cv.columns)
        setParams == GenerateSetParametersL(cv.columns)
    IN ExecUpsert(tbl, columnsStr, paramsStr, setParams, cv.values)

\* Set written with the plain INSERT of Create, without ON CONFLICT
Set_part003_insert(tbl, item, n, order) ==
    LET row == ConvertFromPublic(item)
        params == GenerateParameters(row)
        sp == GenerateSetParameters(row, order)
        values == GenerateValues(sp.columns, row)
    IN ExecInsert(tbl, sp.columns, params, values)

\* IdentifiablePostgresPersistence.Set (part_003): the id is generated into
\* newItem, a copy of the item (the entity is a struct value); the row
\* projection is taken from item itself, and newItem only feeds the trace line
Set_part003(tbl, item, n, order) ==
    LET newItem == GenerateObjectIdIfNotExists(item, n)
        row == ConvertFromPublic(item)
        params == GenerateParameters(row)
        sp == GenerateSetParameters(row, order)
        values == GenerateValues(sp.columns, row)
    IN ExecUpsert(tbl, sp.columns, params, sp.setParams, values)

\* The Set of the identifiable layer in use
SetStatement(tbl, item, n, order) ==
    IF implementation = "persistence"
    THEN Set_persistence(tbl, item, n, order)
    ELSE Set_part003(tbl, item, n, order)

\* IdentifiablePostgresPersistence.Set
Set(item) ==
    /\ Called([op |-> "Set", item |-> item])
    /\ IsUnset(item.id) => nextId < MaxGen
    /\ \E order \in Perms(Columns) :
        LET q == SetStatement(table, item, nextId, order)
        IN /\ Cardinality(q.tbl) <= MaxRows
           /\ table' = q.tbl
           /\ ret' = OneRow(q)
    /\ nextId' = IF IsUnset(item.id) THEN nextId + 1 ELSE nextId

\* Update with the WHERE clause bound to the first placeholder, not the last
Update_persistence_where1(tbl, item, order) ==
    LET objMap == ConvertFromPublic(item)
        cv == GenerateColumnsAndValues(objMap, order)
        paramsStr == GenerateSetParametersL(cv.columns)
        id == objMap["id"]
        values == Append(cv.values, id)
    IN ExecUpdate(tbl, paramsStr, 1, values)

\* IdentifiablePostgresPersistence.Update (src/persistence)
Update_persistence(tbl, item, order) ==
    LET objMap == ConvertFromPublic(item)
        cv == GenerateColumnsAndValues(objMap, order)
        paramsStr == GenerateSetParametersL(cv.columns)
        id == objMap["id"]
        values == Append(cv.values, id)
    IN ExecUpdate(tbl, paramsStr, Len(values), values)

\* Update written as the upsert of Set: a missing row is inserted
Update_part003_upsert(tbl, item, order) ==
    LET row == ConvertFromPublic(item)
        sp == GenerateSetParameters(row, order)
        values == GenerateValues(sp.columns, row)
    IN ExecUpsert(tbl, sp.columns, GenerateParameters(row), sp.setParams, values)

\* IdentifiablePostgresPersistence.Update (part_003)
Update_part003(tbl, item, order) ==
    LET id == item.id
        row == ConvertFromPublic(item)
        sp == GenerateSetParameters(row, order)
        values == Append(GenerateValues(sp.columns, row), id)
    IN ExecUpdate(tbl, sp.setParams, Len(values), values)

\* The Update of the identifiable layer in use
UpdateStatement(tbl, item, order) ==
    IF implementation = "persistence"
    THEN Update_persistence(tbl, item, order)
    ELSE Update_part003(tbl, item, order)

\* IdentifiablePostgresPersistence.Update
Update(item) ==
    /\ Called([op |-> "Update", item |-> item])
    /\ \E order \in Perms(Columns) :
        LET q == UpdateStatement(table, item, order)
        IN /\ table' = q.tbl
           /\ ret' = OneRow(q)
    /\ UNCHANGED nextId

\* ConvertFromPublicPartial: the patch, serialised to JSON and read back as a map
ConvertFromPublicPartial(value) == [c \in DOMAIN value |-> value[c]]

\* IdentifiablePostgresPersistence.UpdatePartially (src/persistence)
UpdatePartially_persistence(tbl, id, data, order) ==
    LET objMap == ConvertFromPublicPartial(data)
        cv == GenerateColumnsAndValues(objMap, order)
        paramsStr == GenerateSetParametersL(cv.columns)
        values == Append(cv.values, id)
    IN ExecUpdate(tbl, paramsStr, Len(values), values)

\* IdentifiablePostgresPersistence.UpdatePartially (part_003): with an empty
\* patch the column list is "" and GenerateValues panics
UpdatePartially_part003(tbl, id, data, order) ==
    LET row == ConvertFromPublicPartial(data)
        sp == GenerateSetParameters(row, order)
        values == Append(GenerateValues(sp.columns, row), id)
    IN IF sp.columns = <<>> THEN Failed(tbl, Panic)
       ELSE ExecUpdate(tbl, sp.setParams, Len(values), values)

\* The patches a caller sends: some of the columns, none included, each with
\* a new value
PatchValues(c) == IF c = "id" THEN {"", "1", NULL} ELSE {"B"}
Patches ==
    UNION {{p \in [S -> {"", "1", "B", NULL}] : \A c \in S : p[c] \in PatchValues(c)} :
            S \in SUBSET {"id", "key"}}

\* IdentifiablePostgresPersistence.UpdatePartially
UpdatePartially(id, data) ==
    /\ Called([op |-> "UpdatePartially", id |-> id, data |-> data])
    /\ \E order \in Perms(DOMAIN data) :
        LET q == IF implementation = "persistence"
                 THEN UpdatePartially_persistence(table, id, data, order)
                 ELSE UpdatePartially_part003(table, id, data, order)
        IN /\ table' = q.tbl
           /\ ret' = OneRow(q)
    /\ UNCHANGED nextId

\* ------------------------------------------------- the statements built
\* What a handler hands to c.Client.Query: the row projection it was built
\* from, the column list, the placeholders of VALUES (...), the SET list as
\* pairs <<column, placeholder>>, the placeholder of the WHERE clause (0: none)
\* with the id meant for it, and the values, values[i] bound to $i.
Statement(op, row, columns, params, setParams, where, id, values) ==
    [op |-> op, row |-> row, columns |-> columns, params |-> params,
     setParams |-> setParams, where |-> where, id |-> id, values |-> values]

\* The handler stopped before it had a statement
NoStatement(op, row) == Statement(op, row, <<>>, <<>>, <<>>, 0, NULL, <<Panic>>)

\* PostgresPersistence.Create: INSERT INTO t (columns) VALUES (params)
CreateQuery(item, order) ==
    LET row == ConvertFromPublic(item)
        columns == GenerateColumns(row, order)
        params == GenerateParameters(row)
        values == GenerateValues(columns, row)
    IN Statement("Create", row, columns, params, <<>>, 0, NULL, values)

\* IdentifiablePostgresPersistence.Set: INSERT ... ON CONFLICT ("id") DO
\* UPDATE SET setParams
SetQuery(item, n, order) ==
    IF implementation = "persistence"
    THEN LET objMap == GenerateObjectMapIdIfNotExists(ConvertFromPublic(item), n)
             cv == GenerateColumnsAndValues(objMap, order)
             paramsStr == GenerateParametersN(Len(cv.values))
             columnsStr == GenerateColumnsL(cv.columns)
             setParams == GenerateSetParametersL(cv.columns)
         IN Statement("Set", objMap, columnsStr, paramsStr, setParams, 0, NULL, cv.values)
    ELSE LET row == ConvertFromPublic(item)
             params == GenerateParameters(row)
             sp == GenerateSetParameters(row, order)
             values == GenerateValues(sp.columns, row)
         IN Statement("Set", row, sp.columns, params, sp.setParams, 0, NULL, values)

\* IdentifiablePostgresPersistence.Update: UPDATE t SET params WHERE "id"=$n
UpdateQuery(item, order) ==
    IF implementation = "persistence"
    THEN LET objMap == ConvertFromPublic(item)
             cv == GenerateColumnsAndValues(objMap, order)
             paramsStr == GenerateSetParametersL(cv.columns)
             id == objMap["id"]
             values == Append(cv.values, id)
         IN Statement("Update", objMap, cv.columns, <<>>, paramsStr, Len(values), id, values)
    ELSE LET id == item.id
             row == ConvertFromPublic(item)
             sp == GenerateSetParameters(row, order)
             values == Append(GenerateValues(sp.columns, row), id)
         IN Statement("Update", row, sp.columns, <<>>, sp.setParams, Len(values), id, values)

\* IdentifiablePostgresPersistence.UpdatePartially: the same statement, built
\* from the patch
UpdatePartiallyQuery(id, data, order) ==
    IF implementation = "persistence"
    THEN LET objMap == ConvertFromPublicPartial(data)
             cv == GenerateColumnsAndValues(objMap, order)
             paramsStr == GenerateSetParametersL(cv.columns)
             values == Append(cv.values, id)
         IN Statement("UpdatePartially", objMap, cv.columns, <<>>, paramsStr,
                      Len(values), id, values)
    ELSE LET row == ConvertFromPublicPartial(data)
             sp == GenerateSetParameters(row, order)
             values == Append(GenerateValues(sp.columns, row), id)
         IN IF sp.columns = <<>> THEN NoStatement("UpdatePartially", row)
            ELSE Statement("UpdatePartially", row, sp.columns, <<>>, sp.setParams,
                           Len(values), id, values)

\* The handlers up to the call of c.Client.Query: ret is the statement
BuildCreate(item, order) ==
    /\ Called([op |-> "Create", item |-> item, order |-> order])
    /\ ret' = CreateQuery(item, order)
    /\ UNCHANGED <<table, nextId>>

BuildSet(item, order) ==
    /\ Called([op |-> "Set", item |-> item, order |-> order])
    /\ ret' = SetQuery(item, nextId, order)
    /\ UNCHANGED <<table, nextId>>

BuildUpdate(item, order) ==
    /\ Called([op |-> "Update", item |-> item, order |-> order])
    /\ ret' = UpdateQuery(item, order)
    /\ UNCHANGED <<table, nextId>>

BuildUpdatePartially(id, data, order) ==
    /\ Called([op |-> "UpdatePartially", id |-> id, data |-> data, order |-> order])
    /\ ret' = UpdatePartiallyQuery(id, data, order)
    /\ UNCHANGED <<table, nextId>>

\* IdentifiablePostgresPersistence.DeleteById
DeleteById(id) ==
    /\ Called([op |-> "DeleteById", id |-> id])
    /\ LET q == ExecDeleteById(table, id)
       IN /\ table' = q.tbl
          /\ ret' = OneRow(q)
    /\ UNCHANGED nextId

\* IdentifiablePostgresPersistence.DeleteByIds (src/persistence)
DeleteByIds_persistence(tbl, ids) ==
    LET ln == Len(ids)
        paramsStr == GenerateParametersN(ln)
    IN ExecDeleteByIds(tbl, paramsStr, ItemsToAnySlice(ids))

\* IdentifiablePostgresPersistence.DeleteByIds (part_003)
DeleteByIds_part003(tbl, ids) ==
    LET params == GenerateParametersK(ids)
        _ids == [i \in 1..Len(ids) |-> ids[i]]
    IN ExecDeleteByIds(tbl, params, _ids)

\* IdentifiablePostgresPersistence.DeleteByIds: the statement has no
\* RETURNING, so no row comes back and the handler returns rows.Err()
DeleteByIds(ids) ==
    /\ Called([op |-> "DeleteByIds", ids |-> ids])
    /\ LET q == IF implementation = "persistence"
                THEN DeleteByIds_persistence(table, ids)
                ELSE DeleteByIds_part003(table, ids)
       IN /\ table' = q.tbl
          /\ ret' = [err |-> q.err]
    /\ UNCHANGED nextId

\* GetCountByFilter that leaves the WHERE clause out
CountByFilter_unfiltered(tbl, filter) == [count |-> ExecCount(tbl, NoFilter), err |-> NoError]

\* PostgresPersistence.GetCountByFilter: what it returns on the table tbl
CountByFilter(tbl, filter) == [count |-> ExecCount(tbl, filter), err |-> NoError]

\* PostgresPersistence.GetCountByFilter
GetCountByFilter(filter) ==
    /\ Called([op |-> "GetCountByFilter", filter |-> filter])
    /\ ret' = CountByFilter(table, filter)
    /\ UNCHANGED <<table, nextId>>

\* cdata.PagingParams.GetSkip, GetTake
GetSkip(paging, minSkip) == IF paging.skip < minSkip THEN minSkip ELSE paging.skip
GetTake(paging, maxTake) ==
    IF paging.take < 0 THEN 0 ELSE IF paging.take > maxTake THEN maxTake ELSE paging.take

Pagings == [skip : {-1, 0, 1}, take : 0..MaxTake, total : BOOLEAN]

\* The items a handler gathers from a result set
ConvertRows(rows) == [i \in 1..Len(rows) |-> ConvertToPublic(rows[i])]

\* GetPageByFilter whose count query leaves the WHERE clause out
GetPageByFilter_countAll(filter, paging) ==
    /\ Called([op |-> "GetPageByFilter", filter |-> filter, paging |-> paging])
    /\ \E scan \in Perms(Matching(table, filter)) :
        LET skip == GetSkip(paging, -1)
            take == GetTake(paging, maxPageSize)
            items == ConvertRows(ExecSelect(scan, skip, take))
        IN ret' = IF paging.total
                  THEN [items |-> items, total |-> ExecCount(table, NoFilter),
                        err |-> NoError, queries |-> 2]
                  ELSE [items |-> items, total |-> EmptyTotalValue,
                        err |-> NoError, queries |-> 1]
    /\ UNCHANGED <<table, nextId>>

\* PostgresPersistence.GetPageByFilter (sort and projection left empty, as
\* the persistence classes of the repository call it)
GetPageByFilter(filter, paging) ==
    /\ Called([op |-> "GetPageByFilter", filter |-> filter, paging |-> paging])
    /\ \E scan \in Perms(Matching(table, filter)) :
        LET skip == GetSkip(paging, -1)
            take == GetTake(paging, maxPageSize)
            pagingEnabled == paging.total
            items == ConvertRows(ExecSelect(scan, skip, take))
        IN ret' = IF pagingEnabled
                  THEN [items |-> items, total |-> ExecCount(table, filter),
                        err |-> NoError, queries |-> 2]
                  ELSE [items |-> items, total |-> EmptyTotalValue,
                        err |-> NoError, queries |-> 1]
    /\ UNCHANGED <<table, nextId>>

\* GetOneRandom drawing its offset in [0, count] instead of [0, count)
GetOneRandom_offByOne(filter) ==
    /\ Called([op |-> "GetOneRandom", filter |-> filter])
    /\ LET count == ExecCount(table, filter)
       IN IF count = 0
          THEN ret' = [item |-> ZeroItem, err |-> NoError, count |-> 0, pos |-> -1]
          ELSE \E pos \in 0..count :
               \E scan \in Perms(Matching(table, filter)) :
                  LET rows == ExecSelect(scan, pos, 1)
                  IN ret' = [item |-> IF Len(rows) = 0 THEN ZeroItem ELSE ConvertToPublic(rows[1]),
                             err |-> NoError, count |-> count, pos |-> pos]
    /\ UNCHANGED <<table, nextId>>

\* PostgresPersistence.GetOneRandom: pos is rand.Int63n(count)
GetOneRandom(filter) ==
    /\ Called([op |-> "GetOneRandom", filter |-> filter])
    /\ LET count == ExecCount(table, filter)
       IN IF count = 0
          THEN ret' = [item |-> ZeroItem, err |-> NoError, count |-> 0, pos |-> -1]
          ELSE \E pos \in 0..(count - 1) :
               \E scan \in Perms(Matching(table, filter)) :
                  LET rows == ExecSelect(scan, pos, 1)
                  IN ret' = [item |-> IF Len(rows) = 0 THEN ZeroItem ELSE ConvertToPublic(rows[1]),
                             err |-> NoError, count |-> count, pos |-> pos]
    /\ UNCHANGED <<table, nextId>>

\* ------------------------------------------- document (JSON) variant
\* IdentifiableJsonPostgresPersistence: the table has the two columns "id" and
\* "data"; an entity is a JSON object, here a map from field names to strings.
DocFields == {"a", "b"}
DocValues == {"1", "2"}
PatchValue == "5"
ZeroDoc == <<>>

\* The entities a caller stores: an id and some of the fields
Docs ==
    UNION {{d \in [{"id"} \cup S -> UserIds \cup DocValues] :
                d["id"] \in UserIds /\ \A k \in S : d[k] \in DocValues} :
            S \in {{"a"}, {"a", "b"}}}

\* The patches a caller sends to the document variant
JsonPatches == UNION {[S -> {PatchValue}] : S \in SUBSET ({"id"} \cup DocFields)}

\* cmpersist.GetObjectId
GetObjectId(value) == IF "id" \in DOMAIN value THEN value["id"] ELSE NULL

\* IdentifiableJsonPostgresPersistence.ConvertFromPublic
Json_ConvertFromPublic(value) == [id |-> GetObjectId(value), data |-> value]

\* IdentifiableJsonPostgresPersistence.ConvertToPublic: the "data" column when
\* the row has one, else the whole row, written as JSON and read back as T
\* (the error of FromJson is dropped)
Json_ConvertToPublic(row) ==
    LET item == IF "data" \in DOMAIN row THEN row.data ELSE row
    IN FromJson(item, ZeroDoc, item)

\* INSERT INTO t ("id","data") VALUES ($1,$2) RETURNING *
ExecInsertDoc(tbl, row) ==
    LET pk == PrimaryKey(tbl, {row})
    IN IF pk # NoError THEN Failed(tbl, pk)
       ELSE [tbl |-> tbl \cup {row}, rows |-> {row}, err |-> NoError]

\* The assignment "data"=$2, which puts the patch in the place of the document
JsonbReplace(left, right) == right

\* jsonb || jsonb on two objects: the keys of both, the right operand's value
\* where both have the key
JsonbConcat(left, right) ==
    [k \in DOMAIN left \cup DOMAIN right |->
        IF k \in DOMAIN right THEN right[k] ELSE left[k]]

\* UPDATE t SET "data"="data"||$2 WHERE "id"=$1 RETURNING *
ExecUpdateDoc(tbl, id, patch) ==
    LET hit == {r \in tbl : id # NULL /\ r.id = id}
        new == {[id |-> r.id, data |-> JsonbConcat(r.data, patch)] : r \in hit}
    IN [tbl |-> (tbl \ hit) \cup new, rows |-> new, err |-> NoError]

\* What a handler of the document variant returns for the result of a statement
OneDoc(q) ==
    IF q.err # NoError THEN [item |-> ZeroDoc, err |-> q.err]
    ELSE IF q.rows = {} THEN [item |-> ZeroDoc, err |-> NoError]
    ELSE [item |-> Json_ConvertToPublic(CHOOSE r \in q.rows : TRUE), err |-> NoError]

\* IdentifiablePostgresPersistence.Create on the document variant: the entity
\* carries its id
Json_Create(item) ==
    /\ Called([op |-> "Create", item |-> item])
    /\ LET q == ExecInsertDoc(table, Json_ConvertFromPublic(item))
       IN /\ Cardinality(q.tbl) <= MaxRows - 1
          /\ table' = q.tbl
          /\ ret' = OneDoc(q)
    /\ UNCHANGED nextId

\* IdentifiableJsonPostgresPersistence.UpdatePartially
Json_UpdatePartially(id, data) ==
    /\ Called([op |-> "UpdatePartially", id |-> id, data |-> data])
    /\ LET q == ExecUpdateDoc(table, id, data)
       IN /\ table' = q.tbl
          /\ ret' = OneDoc(q)
    /\ UNCHANGED nextId

\* IdentifiablePostgresPersistence.GetOneById on the document variant: what it
\* returns on the table tbl
Json_OneById(tbl, id) == OneDoc(ExecSelectById(tbl, id))

\* IdentifiablePostgresPersistence.GetOneById on the document variant
Json_GetOneById(id) ==
    /\ Called([op |-> "Json.GetOneById", id |-> id])
    /\ ret' = Json_OneById(table, id)
    /\ UNCHANGED <<table, nextId>>

\* IdentifiablePostgresPersistence.DeleteById on the document variant
Json_DeleteById(id) ==
    /\ Called([op |-> "DeleteById", id |-> id])
    /\ LET q == ExecDeleteById(table, id)
       IN /\ table' = q.tbl
          /\ ret' = OneDoc(q)
    /\ UNCHANGED nextId

\* ------------------------------------------------------ PostgresConnection
\* Error codes of the pip-services errors the components build
ConnectionError == "CONNECT_FAILED"
InvalidStateError == "NO_CONNECTION"

MaxPools == 3      \* pools established in one behaviour

\* Connection *pgxpool.Pool: nil, or the number of a pool
NoPool == 0

ConnNames == {"shared", "local1", "local2"}
Databases == {"test", "prod"}

\* What Configure leaves in the resolver: whether Resolve will give a
\* connection string, whether pgxpool.ParseConfig will accept it, and the
\* database the string names
ConnConfigs == [resolves : BOOLEAN, parses : BOOLEAN, database : Databases]

\* NewPostgresConnection: nothing configured, no pool, no database name
NewPostgresConnection ==
    [config |-> [resolves |-> FALSE, parses |-> TRUE, database |-> "test"],
     Connection |-> NoPool,
     DatabaseName |-> ""]

\* PostgresConnection.IsOpen
IsOpen(conn) == conn.Connection # NoPool

\* PostgresConnection.Open on the component conn, with the pools live and
\* count pools established before; up says whether the server accepts the
\* connection. attempts counts the calls of pgxpool.ConnectConfig.
Connection_Open(conn, live, count, up) ==
    IF ~conn.config.resolves
    THEN [conn |-> conn, pools |-> live, poolCount |-> count,
          err |-> NoError, attempts |-> 0]
    ELSE IF ~conn.config.parses
    THEN [conn |-> conn, pools |-> live, poolCount |-> count,
          err |-> NoError, attempts |-> 0]
    ELSE IF ~up
    THEN [conn |-> conn, pools |-> live, poolCount |-> count,
          err |-> ConnectionError, attempts |-> 1]
    ELSE [conn |-> [conn EXCEPT !.Connection = count + 1,
                                !.DatabaseName = conn.config.database],
          pools |-> live \cup {count + 1}, poolCount |-> count + 1,
          err |-> NoError, attempts |-> 1]

\* PostgresConnection.Close that closes the pool and keeps the handle
Connection_Close_keepHandle(conn, live) ==
    IF conn.Connection = NoPool
    THEN [conn |-> conn, pools |-> live, err |-> NoError]
    ELSE [conn |-> conn, pools |-> live \ {conn.Connection}, err |-> NoError]

\* PostgresConnection.Close
Connection_Close(conn, live) ==
    IF conn.Connection = NoPool
    THEN [conn |-> conn, pools |-> live, err |-> NoError]
    ELSE [conn |-> [conn EXCEPT !.Connection = NoPool, !.DatabaseName = ""],
          pools |-> live \ {conn.Connection}, err |-> NoError]

\* The frame of a call on a component: what was called, and the connections
\* and pools it found
ComponentCalled(c) ==
    /\ Idle
    /\ call' = c
    /\ pre' = [conns |-> conns, pools |-> pools, pers |-> pers,
               catalog |-> catalog, executed |-> executed]
    /\ UNCHANGED storeVars

\* PostgresConnection.Configure
PostgresConnection_Configure(c, config) ==
    /\ ComponentCalled([op |-> "Connection.Configure", conn |-> c, config |-> config])
    /\ conns' = [conns EXCEPT ![c].config = config]
    /\ ret' = [err |-> NoError]
    /\ UNCHANGED <<pools, poolCount, pers, catalog, executed, opening>>

\* PostgresConnection.Open
PostgresConnection_Open(c, up) ==
    /\ ComponentCalled([op |-> "Connection.Open", conn |-> c, up |-> up])
    /\ poolCount < MaxPools
    /\ LET o == Connection_Open(conns[c], pools, poolCount, up)
       IN /\ conns' = [conns EXCEPT ![c] = o.conn]
          /\ pools' = o.pools
          /\ poolCount' = o.poolCount
          /\ ret' = [err |-> o.err, attempts |-> o.attempts]
    /\ UNCHANGED <<pers, catalog, executed, opening>>

\* PostgresConnection.Close
PostgresConnection_Close(c) ==
    /\ ComponentCalled([op |-> "Connection.Close", conn |-> c])
    /\ LET o == Connection_Close(conns[c], pools)
       IN /\ conns' = [conns EXCEPT ![c] = o.conn]
          /\ pools' = o.pools
          /\ ret' = [err |-> o.err]
    /\ UNCHANGED <<poolCount, pers, catalog, executed, opening>>

\* ----------------------------------------------- PostgresPersistence lifecycle
Instances == {1, 2}

TableName == "dummies"
IndexName == "dummies_key"

\* PostgreSQL error codes of schema statements, and the pool's error once closed
DuplicateTable == "42P07"
UndefinedTable == "42P01"
ClosedPool == "closed pool"
QueryFailed == "query failed"

\* CREATE TABLE "dummies" (...) as DummyPostgresPersistence.DefineSchema queues it
CreateTable == [op |-> "CREATE TABLE", name |-> TableName, guard |-> FALSE, on |-> ""]

\* IdentifiableJsonPostgresPersistence.EnsureTable: CREATE TABLE IF NOT EXISTS
EnsureTable == [op |-> "CREATE TABLE", name |-> TableName, guard |-> TRUE, on |-> ""]

\* PostgresPersistence.EnsureIndex: CREATE [UNIQUE] INDEX IF NOT EXISTS name ON table
EnsureIndex == [op |-> "CREATE INDEX", name |-> IndexName, guard |-> TRUE, on |-> TableName]

\* The statement lists a DefineSchema override queues: the base one (nothing),
\* the test fixture's, the document variant's, and one that queues the index
\* before the table
Schemas ==
    {<<>>, <<CreateTable, EnsureIndex>>, <<EnsureTable>>, <<EnsureIndex, CreateTable>>}

\* The connection an instance creates for itself, and a connection whose
\* configuration resolves
LocalConn(i) == IF i = 1 THEN "local1" ELSE "local2"

Configured == [NewPostgresConnection EXCEPT !.config.resolves = TRUE]

\* PostgresPersistence.createConnection: a new connection component with the
\* configuration of the instance, which is the one its local connection has
createConnection(i) == [NewPostgresConnection EXCEPT !.config = conns[LocalConn(i)].config]

\* InheritPostgresPersistence followed by SetReferences: the instance uses the
\* connection named conn, its own (local) or one found in the references
NewPersistence(conn, local, schema) ==
    [opened |-> FALSE,
     localConnection |-> local,
     Connection |-> conn,
     Client |-> NoPool,
     DatabaseName |-> "",
     schemaStatements |-> <<>>,
     schema |-> schema]

\* Overrides.DefineSchema: ClearSchema, then the override's EnsureSchema calls
DefineSchema(me) == me.schema

\* What the server does with one schema statement on the catalog cat
ExecStatement(cat, stmt) ==
    IF stmt.op = "CREATE INDEX" /\ stmt.on \notin cat
    THEN [catalog |-> cat, err |-> UndefinedTable]
    ELSE IF stmt.name \in cat
    THEN [catalog |-> cat, err |-> IF stmt.guard THEN NoError ELSE DuplicateTable]
    ELSE [catalog |-> cat \cup {stmt.name}, err |-> NoError]

\* The loop of CreateSchema: every statement from the one numbered next on, in
\* order, whatever the earlier ones returned
RECURSIVE RunStatements(_, _, _, _, _)
RunStatements(cat, log, i, stmts, next) ==
    IF next > Len(stmts) THEN [catalog |-> cat, executed |-> log]
    ELSE LET r == ExecStatement(cat, stmts[next])
         IN RunStatements(r.catalog,
                          Append(log, [instance |-> i, statement |-> stmts[next], err |-> r.err]),
                          i, stmts, next + 1)

\* CreateSchema without the test of what the catalog query returned
CheckTable_absent(cat, stmts, fault) ==
    IF Len(stmts) = 0 THEN "none"
    ELSE IF fault THEN "error"
    ELSE "absent"

\* The catalog query of CreateSchema, SELECT to_regclass('"dummies"'): fault
\* says the query itself fails
CheckTable(cat, stmts, fault) ==
    IF Len(stmts) = 0 THEN "none"
    ELSE IF fault THEN "error"
    ELSE IF TableName \in cat THEN "exists"
    ELSE "absent"

\* PostgresPersistence.CreateSchema
CreateSchema(cat, log, i, stmts, fault) ==
    LET observed == CheckTable(cat, stmts, fault)
    IN IF observed = "error" THEN [catalog |-> cat, executed |-> log, err |-> QueryFailed]
       ELSE IF observed \in {"none", "exists"} THEN [catalog |-> cat, executed |-> log, err |-> NoError]
       ELSE LET run == RunStatements(cat, log, i, stmts, 1)
            IN [catalog |-> run.catalog, executed |-> run.executed, err |-> NoError]

\* PostgresPersistence.Open up to the call of CreateSchema: the connection is
\* opened when it is local and checked; then the client, the database name and
\* the schema statements are set. returned says Open has returned err.
OpenConnection(me, conn, live, count, up) ==
    IF me.opened
    THEN [me |-> me, conn |-> conn, pools |-> live, poolCount |-> count,
          err |-> NoError, returned |-> TRUE]
    ELSE LET o == IF me.localConnection
                  THEN Connection_Open(conn, live, count, up)
                  ELSE [conn |-> conn, pools |-> live, poolCount |-> count,
                        err |-> NoError, attempts |-> 0]
             err == IF o.err = NoError /\ ~IsOpen(o.conn) THEN ConnectionError ELSE o.err
         IN IF err # NoError
            THEN [me |-> [me EXCEPT !.opened = FALSE], conn |-> o.conn,
                  pools |-> o.pools, poolCount |-> o.poolCount,
                  err |-> err, returned |-> TRUE]
            ELSE [me |-> [me EXCEPT !.opened = FALSE,
                                    !.Client = o.conn.Connection,
                                    !.DatabaseName = o.conn.DatabaseName,
                                    !.schemaStatements = DefineSchema(me)],
                  conn |-> o.conn, pools |-> o.pools, poolCount |-> o.poolCount,
                  err |-> NoError, returned |-> FALSE]

\* The end of Open that keeps the client when CreateSchema failed
OpenFinish_keepClient(me, err) ==
    IF err # NoError
    THEN [me |-> me, err |-> ConnectionError]
    ELSE [me |-> [me EXCEPT !.opened = TRUE], err |-> NoError]

\* PostgresPersistence.Open after CreateSchema has returned err
OpenFinish(me, err) ==
    IF err # NoError
    THEN [me |-> [me EXCEPT !.Client = NoPool], err |-> ConnectionError]
    ELSE [me |-> [me EXCEPT !.opened = TRUE], err |-> NoError]

\* PostgresPersistence.Open, as one step.  An instance that has no
\* connection creates one and takes it as its own.
Open(i, up, fault) ==
    /\ ComponentCalled([op |-> "Persistence.Open", instance |-> i, up |-> up, fault |-> fault])
    /\ poolCount < MaxPools
    /\ IF pers[i].opened
       THEN /\ ret' = [err |-> NoError]
            /\ UNCHANGED <<conns, pools, poolCount, pers, catalog, executed>>
       ELSE LET missing == pers[i].Connection = NULL
                me == IF missing
                      THEN [pers[i] EXCEPT !.Connection = LocalConn(i),
                                           !.localConnection = TRUE]
                      ELSE pers[i]
                c == me.Connection
                conn == IF missing THEN createConnection(i) ELSE conns[c]
                o == OpenConnection(me, conn, pools, poolCount, up)
                cs == CreateSchema(catalog, executed, i, o.me.schemaStatements, fault)
                f == OpenFinish(o.me, cs.err)
            IN /\ conns' = [conns EXCEPT ![c] = o.conn]
               /\ pools' = o.pools
               /\ poolCount' = o.poolCount
               /\ IF o.returned
                  THEN /\ pers' = [pers EXCEPT ![i] = o.me]
                       /\ ret' = [err |-> o.err]
                       /\ UNCHANGED <<catalog, executed>>
                  ELSE /\ pers' = [pers EXCEPT ![i] = f.me]
                       /\ ret' = [err |-> f.err]
                       /\ catalog' = cs.catalog
                       /\ executed' = cs.executed
    /\ UNCHANGED opening

\* PostgresPersistence.Close that closes the connection whoever created it
Close_always(i) ==
    /\ ComponentCalled([op |-> "Persistence.Close", instance |-> i])
    /\ LET me == pers[i]
           c == me.Connection
           o == Connection_Close(conns[c], pools)
       IN IF ~me.opened
          THEN /\ ret' = [err |-> NoError]
               /\ UNCHANGED <<conns, pools, pers>>
          ELSE /\ conns' = [conns EXCEPT ![c] = o.conn]
               /\ pools' = o.pools
               /\ pers' = [pers EXCEPT ![i].opened = FALSE, ![i].Client = NoPool]
               /\ ret' = [err |-> NoError]
    /\ UNCHANGED <<poolCount, catalog, executed, opening>>

\* PostgresPersistence.Close
Close(i) ==
    /\ ComponentCalled([op |-> "Persistence.Close", instance |-> i])
    /\ LET me == pers[i]
           c == me.Connection
           o == IF me.localConnection THEN Connection_Close(conns[c], pools)
                ELSE [conn |-> conns[c], pools |-> pools, err |-> NoError]
       IN IF ~me.opened
          THEN /\ ret' = [err |-> NoError]
               /\ UNCHANGED <<conns, pools, pers>>
          ELSE IF c = NULL
          THEN /\ ret' = [err |-> InvalidStateError]
               /\ UNCHANGED <<conns, pools, pers>>
          ELSE /\ conns' = [conns EXCEPT ![c] = o.conn]
               /\ pools' = o.pools
               /\ pers' = [pers EXCEPT ![i].opened = FALSE, ![i].Client = NoPool]
               /\ ret' = [err |-> NoError]
    /\ UNCHANGED <<poolCount, catalog, executed, opening>>

\* PostgresPersistence.SetReferences: dep is the connection the references
\* hold under the dependency name "connection", NULL when they hold none
SetReferences(i, dep) ==
    /\ ComponentCalled([op |-> "Persistence.SetReferences", instance |-> i, dep |-> dep])
    /\ LET me == IF dep # NULL THEN [pers[i] EXCEPT !.Connection = dep] ELSE pers[i]
       IN IF me.Connection = NULL
          THEN /\ pers' = [pers EXCEPT ![i] = [me EXCEPT !.Connection = LocalConn(i),
                                                          !.localConnection = TRUE]]
               /\ conns' = [conns EXCEPT ![LocalConn(i)] = createConnection(i)]
          ELSE /\ pers' = [pers EXCEPT ![i] = [me EXCEPT !.localConnection = FALSE]]
               /\ UNCHANGED conns
    /\ ret' = [err |-> NoError]
    /\ UNCHANGED <<pools, poolCount, catalog, executed, opening>>

\* PostgresPersistence.IsOpen
Persistence_IsOpen(me) == me.opened

\* PostgresPersistence.UnsetReferences
UnsetReferences(i) ==
    /\ ComponentCalled([op |-> "Persistence.UnsetReferences", instance |-> i])
    /\ pers' = [pers EXCEPT ![i].Connection = NULL]
    /\ ret' = [err |-> NoError]
    /\ UNCHANGED <<conns, pools, poolCount, catalog, executed, opening>>

\* c.Client.Query of a CRUD handler: a nil client is dereferenced, a closed
\* pool refuses, a missing table is an error of the statement. sent says
\* whether a statement reached the server.
ClientQuery(me, live, cat) ==
    IF me.Client = NoPool THEN [count |-> 0, err |-> Panic, sent |-> FALSE]
    ELSE IF me.Client \notin live THEN [count |-> 0, err |-> ClosedPool, sent |-> FALSE]
    ELSE IF TableName \notin cat THEN [count |-> 0, err |-> UndefinedTable, sent |-> TRUE]
    ELSE [count |-> ExecCount(table, NoFilter), err |-> NoError, sent |-> TRUE]

\* PostgresPersistence.GetCountByFilter on the instance i, with no filter
Instance_GetCountByFilter(i) ==
    /\ ComponentCalled([op |-> "Persistence.GetCountByFilter", instance |-> i])
    /\ ret' = ClientQuery(pers[i], pools, catalog)
    /\ UNCHANGED lifecycleVars

\* ------------------------------------------- Open, statement by statement
\* Open of the instance i as the steps another instance's Open can fall
\* between: the part up to the catalog query, each schema statement of the
\* worker, and the return after wg.Wait().
NotOpening == [pc |-> "ready", next |-> 1, observed |-> "unchecked",
               existed |-> FALSE, err |-> NoError]

\* The caller's side of a step of Open: no call of the other kind is involved
OpenStep ==
    /\ Idle
    /\ UNCHANGED <<call, ret, pre>>
    /\ UNCHANGED storeVars

\* Open that waits while another instance is creating its schema
OpenBegin_exclusive(i, fault) ==
    /\ OpenStep
    /\ opening[i].pc = "ready"
    /\ \A j \in Instances \ {i} : opening[j].pc # "creating"
    /\ LET c == pers[i].Connection
           o == OpenConnection(pers[i], conns[c], pools, poolCount, TRUE)
           observed == CheckTable(catalog, o.me.schemaStatements, fault)
           f == OpenFinish(o.me, IF observed = "error" THEN QueryFailed ELSE NoError)
       IN /\ conns' = [conns EXCEPT ![c] = o.conn]
          /\ pools' = o.pools
          /\ poolCount' = o.poolCount
          /\ IF o.returned
             THEN /\ pers' = [pers EXCEPT ![i] = o.me]
                  /\ opening' = [opening EXCEPT ![i] = [NotOpening EXCEPT !.pc = "done", !.err = o.err]]
             ELSE IF observed = "absent"
             THEN /\ pers' = [pers EXCEPT ![i] = o.me]
                  /\ opening' = [opening EXCEPT ![i] =
                        [pc |-> "creating", next |-> 1, observed |-> observed,
                         existed |-> TableName \in catalog, err |-> NoError]]
             ELSE /\ pers' = [pers EXCEPT ![i] = f.me]
                  /\ opening' = [opening EXCEPT ![i] =
                        [pc |-> "done", next |-> 1, observed |-> observed,
                         existed |-> TableName \in catalog, err |-> f.err]]
    /\ UNCHANGED <<catalog, executed>>

\* PostgresPersistence.Open from its entry to the answer of the catalog query
\* of CreateSchema
OpenBegin(i, fault) ==
    /\ OpenStep
    /\ opening[i].pc = "ready"
    /\ LET c == pers[i].Connection
           o == OpenConnection(pers[i], conns[c], pools, poolCount, TRUE)
           observed == CheckTable(catalog, o.me.schemaStatements, fault)
           f == OpenFinish(o.me, IF observed = "error" THEN QueryFailed ELSE NoError)
       IN /\ conns' = [conns EXCEPT ![c] = o.conn]
          /\ pools' = o.pools
          /\ poolCount' = o.poolCount
          /\ IF o.returned
             THEN /\ pers' = [pers EXCEPT ![i] = o.me]
                  /\ opening' = [opening EXCEPT ![i] = [NotOpening EXCEPT !.pc = "done", !.err = o.err]]
             ELSE IF observed = "absent"
             THEN /\ pers' = [pers EXCEPT ![i] = o.me]
                  /\ opening' = [opening EXCEPT ![i] =
                        [pc |-> "creating", next |-> 1, observed |-> observed,
                         existed |-> TableName \in catalog, err |-> NoError]]
             ELSE /\ pers' = [pers EXCEPT ![i] = f.me]
                  /\ opening' = [opening EXCEPT ![i] =
                        [pc |-> "done", next |-> 1, observed |-> observed,
                         existed |-> TableName \in catalog, err |-> f.err]]
    /\ UNCHANGED <<catalog, executed>>

\* The worker of CreateSchema giving up at the first statement that fails
ExecNext_abort(i) ==
    /\ OpenStep
    /\ opening[i].pc = "creating"
    /\ opening[i].next <= Len(pers[i].schemaStatements)
    /\ LET stmt == pers[i].schemaStatements[opening[i].next]
           r == ExecStatement(catalog, stmt)
       IN /\ catalog' = r.catalog
          /\ executed' = Append(executed, [instance |-> i, statement |-> stmt, err |-> r.err])
          /\ IF r.err # NoError
             THEN /\ opening' = [opening EXCEPT ![i].pc = "done", ![i].err = ConnectionError]
                  /\ pers' = [pers EXCEPT ![i].Client = NoPool]
             ELSE /\ opening' = [opening EXCEPT ![i].next = @ + 1]
                  /\ UNCHANGED pers
    /\ UNCHANGED <<conns, pools, poolCount>>

\* One turn of the worker's loop in CreateSchema: the next statement is sent,
\* its error logged, its result closed
ExecNext(i) ==
    /\ OpenStep
    /\ opening[i].pc = "creating"
    /\ opening[i].next <= Len(pers[i].schemaStatements)
    /\ LET stmt == pers[i].schemaStatements[opening[i].next]
           r == ExecStatement(catalog, stmt)
       IN /\ catalog' = r.catalog
          /\ executed' = Append(executed, [instance |-> i, statement |-> stmt, err |-> r.err])
          /\ opening' = [opening EXCEPT ![i].next = @ + 1]
          /\ UNCHANGED pers
    /\ UNCHANGED <<conns, pools, poolCount>>

\* The worker is done: wg.Wait() returns, CreateSchema returns qResult.Err()
\* and Open finishes
OpenEnd(i) ==
    /\ OpenStep
    /\ opening[i].pc = "creating"
    /\ opening[i].next > Len(pers[i].schemaStatements)
    /\ LET f == OpenFinish(pers[i], NoError)
       IN /\ pers' = [pers EXCEPT ![i] = f.me]
          /\ opening' = [opening EXCEPT ![i].pc = "done", ![i].err = f.err]
    /\ UNCHANGED <<conns, pools, poolCount, catalog, executed>>

\* The caller has the result of Open and may call Open again
OpenReturn(i) ==
    /\ OpenStep
    /\ opening[i].pc = "done"
    /\ opening' = [opening EXCEPT ![i].pc = "ready"]
    /\ UNCHANGED <<conns, pools, poolCount, pers, catalog, executed>>

\* ------------------------------------------------------------ EnsureIndex
\* The index keys a caller writes down, in the caller's order: a list of
\* pairs <<key, direction>> with no key twice; in Go it becomes a map
IndexDirections == {"1", "-1"}
IndexColumns == {"key", "content"}
IndexKeys ==
    {g \in SeqsUpTo(IndexColumns \X IndexDirections, 2) :
        g # <<>> /\ \A i, j \in 1..Len(g) : g[i][1] = g[j][1] => i = j}

\* The options of an index: absent entries read as ""
IndexOptions == [unique : {"", "true", "false"}, type : {"", "USING hash"}]

\* keys[key] of the Go map made from the list
DirectionOf(given, key) == (CHOOSE p \in Range(given) : p[1] = key)[2]

\* PostgresPersistence.EnsureSchema: the statement goes to the end of the queue
EnsureSchema(schemaStatements, schemaStatement) == Append(schemaStatements, schemaStatement)

\* PostgresPersistence.EnsureIndex on the queue schemaStatements; order is the
\* iteration order of the map keys.  A field of the statement is the pair
\* <<key, followed by DESC or not>>.
EnsureIndexStatement(schemaStatements, name, given, options, order) ==
    LET unique == options.unique # ""
        fields == [i \in 1..Len(order) |-> <<order[i], DirectionOf(given, order[i]) # "1">>]
        builder == [op |-> "CREATE INDEX", unique |-> unique, guard |-> TRUE,
                    name |-> name, on |-> TableName, type |-> options.type,
                    fields |-> fields]
    IN EnsureSchema(schemaStatements, builder)

\* PostgresPersistence.EnsureIndex called by a DefineSchema override
Persistence_EnsureIndex(schemaStatements, given, options) ==
    /\ Called([op |-> "EnsureIndex", queue |-> schemaStatements, name |-> IndexName,
                keys |-> given, options |-> options])
    /\ \E order \in Perms({p[1] : p \in Range(given)}) :
        ret' = [schemaStatements |->
                    EnsureIndexStatement(schemaStatements, IndexName, given, options, order)]
    /\ UNCHANGED <<table, nextId>>

\* The call returns to its caller; the instance waits for the next call
Return ==
    /\ ~Idle
    /\ call' = [op |-> "None"]
    /\ ret' = [item |-> ZeroItem, err |-> NoError]
    /\ pre' = table
    /\ UNCHANGED storeVars
    /\ UNCHANGED lifecycleVars

\* --------------------------------- reads in two queries, beside a writer
\* What c.Client.Query hands back as its error
QueryError(fault) == IF fault THEN QueryFailed ELSE NoError

\* The frame of one query of a read: the rest of the program stands still
QueryStep ==
    /\ UNCHANGED <<nextId, implementation, maxPageSize>>
    /\ UNCHANGED lifecycleVars

\* cdata.NewEmptyDataPage, as the handler returns it beside a query error
EmptyDataPage(err, queries, countedOn) ==
    [items |-> <<>>, total |-> EmptyTotalValue, err |-> err,
     queries |-> queries, countedOn |-> countedOn]

\* PostgresPersistence.GetPageByFilter up to the end of its item query.
\* call.failed is the number of the query that failed, 0 when none did.
GetPageByFilter_items(filter, paging, fault) ==
    /\ Idle
    /\ pre' = table
    /\ \E scan \in Perms(Matching(table, filter)) :
        LET skip == GetSkip(paging, -1)
            take == GetTake(paging, maxPageSize)
            pagingEnabled == paging.total
            qErr == QueryError(fault)
            items == ConvertRows(ExecSelect(scan, skip, take))
        IN IF qErr # NoError
           THEN /\ call' = [op |-> "GetPageByFilter", filter |-> filter, paging |-> paging,
                            pc |-> "done", failed |-> 1]
                /\ ret' = EmptyDataPage(qErr, 1, {})
           ELSE /\ call' = [op |-> "GetPageByFilter", filter |-> filter, paging |-> paging,
                            pc |-> IF pagingEnabled THEN "counting" ELSE "done",
                            failed |-> 0]
                /\ ret' = [items |-> items, total |-> EmptyTotalValue, err |-> NoError,
                           queries |-> 1, countedOn |-> {}]
    /\ UNCHANGED table
    /\ QueryStep

\* The count query of GetPageByFilter reading the state its items came from
GetPageByFilter_count_snapshot(fault) ==
    /\ call.op = "GetPageByFilter"
    /\ call.pc = "counting"
    /\ LET qErr2 == QueryError(fault)
       IN IF qErr2 # NoError
          THEN /\ call' = [call EXCEPT !.pc = "done", !.failed = 2]
               /\ ret' = EmptyDataPage(qErr2, 2, table)
          ELSE /\ call' = [call EXCEPT !.pc = "done"]
               /\ ret' = [ret EXCEPT !.total = ExecCount(pre, call.filter),
                                     !.queries = 2, !.countedOn = table]
    /\ UNCHANGED <<table, pre>>
    /\ QueryStep

\* PostgresPersistence.GetPageByFilter from its count query on: the query
\* reads the table as it is when it runs
GetPageByFilter_count(fault) ==
    /\ call.op = "GetPageByFilter"
    /\ call.pc = "counting"
    /\ LET qErr2 == QueryError(fault)
       IN IF qErr2 # NoError
          THEN /\ call' = [call EXCEPT !.pc = "done", !.failed = 2]
               /\ ret' = EmptyDataPage(qErr2, 2, table)
          ELSE /\ call' = [call EXCEPT !.pc = "done"]
               /\ ret' = [ret EXCEPT !.total = ExecCount(table, call.filter),
                                     !.queries = 2, !.countedOn = table]
    /\ UNCHANGED <<table, pre>>
    /\ QueryStep

\* PostgresPersistence.GetOneRandom up to the draw of the offset
GetOneRandom_count(filter, fault) ==
    /\ Idle
    /\ pre' = table
    /\ LET qErr == QueryError(fault)
           count == ExecCount(table, filter)
       IN IF qErr # NoError
          THEN /\ call' = [op |-> "GetOneRandom", filter |-> filter, pc |-> "done", failed |-> 1]
               /\ ret' = [item |-> ZeroItem, err |-> qErr, count |-> 0, pos |-> -1,
                          fetchedOn |-> {}]
          ELSE IF count = 0
          THEN /\ call' = [op |-> "GetOneRandom", filter |-> filter, pc |-> "done", failed |-> 0]
               /\ ret' = [item |-> ZeroItem, err |-> NoError, count |-> 0, pos |-> -1,
                          fetchedOn |-> {}]
          ELSE \E pos \in 0..(count - 1) :
               /\ call' = [op |-> "GetOneRandom", filter |-> filter, pc |-> "fetching",
                           failed |-> 0]
               /\ ret' = [item |-> ZeroItem, err |-> NoError, count |-> count, pos |-> pos,
                          fetchedOn |-> {}]
    /\ UNCHANGED table
    /\ QueryStep

\* The fetch query of GetOneRandom reading the state that was counted
GetOneRandom_fetch_snapshot(fault) ==
    /\ call.op = "GetOneRandom"
    /\ call.pc = "fetching"
    /\ \E scan \in Perms(Matching(pre, call.filter)) :
        LET qErr2 == QueryError(fault)
            rows == ExecSelect(scan, ret.pos, 1)
        IN IF qErr2 # NoError
           THEN /\ call' = [call EXCEPT !.pc = "done", !.failed = 2]
                /\ ret' = [ret EXCEPT !.fetchedOn = table]
           ELSE /\ call' = [call EXCEPT !.pc = "done"]
                /\ ret' = [ret EXCEPT
                             !.item = IF Len(rows) = 0 THEN ZeroItem
                                      ELSE ConvertToPublic(rows[1]),
                             !.fetchedOn = table]
    /\ UNCHANGED <<table, pre>>
    /\ QueryStep

\* PostgresPersistence.GetOneRandom from its fetch query on.  When the query
\* fails the handler returns qErr, the error of the count query, which is nil.
GetOneRandom_fetch(fault) ==
    /\ call.op = "GetOneRandom"
    /\ call.pc = "fetching"
    /\ \E scan \in Perms(Matching(table, call.filter)) :
        LET qErr2 == QueryError(fault)
            rows == ExecSelect(scan, ret.pos, 1)
        IN IF qErr2 # NoError
           THEN /\ call' = [call EXCEPT !.pc = "done", !.failed = 2]
                /\ ret' = [ret EXCEPT !.fetchedOn = table]
           ELSE /\ call' = [call EXCEPT !.pc = "done"]
                /\ ret' = [ret EXCEPT
                             !.item = IF Len(rows) = 0 THEN ZeroItem
                                      ELSE ConvertToPublic(rows[1]),
                             !.fetchedOn = table]
    /\ UNCHANGED <<table, pre>>
    /\ QueryStep

\* PostgresPersistence.Clear on an instance that has a table name
Clear(fault) ==
    /\ Idle
    /\ pre' = table
    /\ LET err == QueryError(fault)
       IN /\ call' = [op |-> "Clear", pc |-> "done", failed |-> IF err # NoError THEN 1 ELSE 0]
          /\ table' = IF err # NoError THEN table ELSE {}
          /\ ret' = [item |-> ZeroItem,
                     err |-> IF err # NoError THEN ConnectionError ELSE NoError]
    /\ QueryStep

\* Another caller's call lands before this caller's read, or between its
\* queries; one that lands after the read has returned is taken as landing
\* before the next call
Interleaves == IF Idle THEN TRUE ELSE call.pc # "done"

\* Create of another caller, with an id of the caller's own
Writer_Create(item) ==
    /\ Interleaves
    /\ ~IsUnset(item.id)
    /\ \E order \in Perms(Columns) :
        LET q == BaseCreate(table, item, order)
        IN /\ Cardinality(q.tbl) <= MaxRows
           /\ table' = q.tbl
    /\ UNCHANGED <<call, ret, pre>>
    /\ QueryStep

\* DeleteById of another caller
Writer_DeleteById(id) ==
    /\ Interleaves
    /\ table' = ExecDeleteById(table, id).tbl
    /\ UNCHANGED <<call, ret, pre>>
    /\ QueryStep

\* The read or Clear has returned and the caller has taken the result
Returned ==
    /\ ~Idle
    /\ call.pc = "done"
    /\ Return

\* ------------------------------------------------------------ specification
\* No connection component and no persistence instance takes part
NoComponents ==
    /\ conns = <<>>
    /\ pools = {}
    /\ poolCount = 0
    /\ pers = <<>>
    /\ catalog = {}
    /\ executed = <<>>
    /\ opening = <<>>

\* Spec: the key-addressed operations and the count, on an instance with the
\* default page size, built from either source of the identifiable layer
Init ==
    /\ table = {}
    /\ nextId = 0
    /\ implementation \in {"persistence", "part_003"}
    /\ maxPageSize = DefaultMaxPageSize
    /\ call = [op |-> "None"]
    /\ ret = [item |-> ZeroItem, err |-> NoError]
    /\ pre = {}
    /\ NoComponents

Next ==
    \/ \E item \in Items : Create(item)
    \/ \E id \in KnownIds : GetOneById(id)
    \/ \E item \in Items : Set(item)
    \/ \E item \in Items : Update(item)
    \/ \E id \in KnownIds, data \in Patches : UpdatePartially(id, data)
    \/ \E id \in KnownIds : DeleteById(id)
    \/ \E ids \in SeqsUpTo(KnownIds, MaxIds) : DeleteByIds(ids)
    \/ \E filter \in Filters : GetCountByFilter(filter)
    \/ Return

Spec == Init /\ [][Next]_vars

\* SpecQuery: the filtered reads of the base layer, on a table that Create and
\* DeleteById fill and empty, with the default or a configured page size
InitQuery ==
    /\ table = {}
    /\ nextId = 0
    /\ implementation = "persistence"
    /\ maxPageSize \in {DefaultMaxPageSize, SmallPageSize}
    /\ call = [op |-> "None"]
    /\ ret = [item |-> ZeroItem, err |-> NoError]
    /\ pre = {}
    /\ NoComponents

NextQuery ==
    \/ \E item \in Items : Create(item)
    \/ \E id \in KnownIds : DeleteById(id)
    \/ \E filter \in Filters : GetCountByFilter(filter)
    \/ \E filter \in Filters, paging \in Pagings : GetPageByFilter(filter, paging)
    \/ \E filter \in Filters : GetOneRandom(filter)
    \/ Return

SpecQuery == InitQuery /\ [][NextQuery]_vars

\* SpecJson: the document variant, on a table of JSON documents
InitJson ==
    /\ table = {}
    /\ nextId = 0
    /\ implementation = "persistence"
    /\ maxPageSize = DefaultMaxPageSize
    /\ call = [op |-> "None"]
    /\ ret = [item |-> ZeroItem, err |-> NoError]
    /\ pre = {}
    /\ NoComponents

NextJson ==
    \/ \E item \in Docs : Json_Create(item)
    \/ \E id \in UserIds, data \in JsonPatches : Json_UpdatePartially(id, data)
    \/ \E id \in UserIds : Json_DeleteById(id)
    \/ Return

SpecJson == InitJson /\ [][NextJson]_vars

\* SpecConnection: one connection component that its owner configures, opens
\* and closes in any order, against a server that is up or down
InitConnection ==
    /\ table = {}
    /\ nextId = 0
    /\ implementation = "persistence"
    /\ maxPageSize = DefaultMaxPageSize
    /\ call = [op |-> "None"]
    /\ ret = [item |-> ZeroItem, err |-> NoError]
    /\ pre = {}
    /\ conns = [c \in {"shared"} |-> NewPostgresConnection]
    /\ pools = {}
    /\ poolCount = 0
    /\ pers = <<>>
    /\ catalog = {}
    /\ executed = <<>>
    /\ opening = <<>>

NextConnection ==
    \/ \E config \in ConnConfigs : PostgresConnection_Configure("shared", config)
    \/ \E up \in BOOLEAN : PostgresConnection_Open("shared", up)
    \/ PostgresConnection_Close("shared")
    \/ Return

SpecConnection == InitConnection /\ [][NextConnection]_vars

\* SpecLifecycle: two persistence instances, each with a connection of its
\* own or with the shared one, which its owner opens and closes; the table
\* exists or not when the behaviour starts
InitLifecycle ==
    /\ table = {}
    /\ nextId = 0
    /\ implementation = "persistence"
    /\ maxPageSize = DefaultMaxPageSize
    /\ call = [op |-> "None"]
    /\ ret = [item |-> ZeroItem, err |-> NoError]
    /\ pre = {}
    /\ \E resolves \in BOOLEAN :
        conns = [c \in ConnNames |->
                    IF c = "shared" THEN Configured
                    ELSE [NewPostgresConnection EXCEPT !.config.resolves = resolves]]
    /\ pools = {}
    /\ poolCount = 0
    /\ \E local \in [Instances -> BOOLEAN] :
        pers = [i \in Instances |->
                    NewPersistence(IF local[i] THEN LocalConn(i) ELSE "shared",
                                   local[i], <<CreateTable, EnsureIndex>>)]
    /\ catalog \in {{}, {TableName}}
    /\ executed = <<>>
    /\ opening = <<>>

NextLifecycle ==
    \/ \E up \in BOOLEAN : PostgresConnection_Open("shared", up)
    \/ PostgresConnection_Close("shared")
    \/ \E i \in Instances, up \in BOOLEAN, fault \in BOOLEAN : Open(i, up, fault)
    \/ \E i \in Instances : Close(i)
    \/ \E i \in Instances : Instance_GetCountByFilter(i)
    \/ Return

SpecLifecycle == InitLifecycle /\ [][NextLifecycle]_vars

\* SpecOpening: two instances on the shared connection, which is open, call
\* Open concurrently; each has the schema of its DefineSchema; the table
\* exists or not when the behaviour starts
InitOpening ==
    /\ table = {}
    /\ nextId = 0
    /\ implementation = "persistence"
    /\ maxPageSize = DefaultMaxPageSize
    /\ call = [op |-> "None"]
    /\ ret = [item |-> ZeroItem, err |-> NoError]
    /\ pre = {}
    /\ conns = [c \in {"shared"} |->
                    [Configured EXCEPT !.Connection = 1, !.DatabaseName = "test"]]
    /\ pools = {1}
    /\ poolCount = 1
    /\ \E schema \in [Instances -> Schemas] :
        pers = [i \in Instances |-> NewPersistence("shared", FALSE, schema[i])]
    /\ catalog \in {{}, {TableName}}
    /\ executed = <<>>
    /\ opening = [i \in Instances |-> NotOpening]

NextOpening ==
    \/ \E i \in Instances, fault \in BOOLEAN : OpenBegin(i, fault)
    \/ \E i \in Instances : ExecNext(i)
    \/ \E i \in Instances : OpenEnd(i)
    \/ \E i \in Instances : OpenReturn(i)

SpecOpening == InitOpening /\ [][NextOpening]_vars

\* SpecInterleaved: one caller inside the two-query reads (or Clear), one
\* query at a time, while another caller creates and deletes rows
InitInterleaved ==
    /\ table = {}
    /\ nextId = 0
    /\ implementation = "part_003"
    /\ maxPageSize = DefaultMaxPageSize
    /\ call = [op |-> "None"]
    /\ ret = [item |-> ZeroItem, err |-> NoError]
    /\ pre = {}
    /\ NoComponents

NextInterleaved ==
    \/ \E filter \in Filters, paging \in Pagings, fault \in BOOLEAN :
        GetPageByFilter_items(filter, paging, fault)
    \/ \E fault \in BOOLEAN : GetPageByFilter_count(fault)
    \/ \E filter \in Filters, fault \in BOOLEAN : GetOneRandom_count(filter, fault)
    \/ \E fault \in BOOLEAN : GetOneRandom_fetch(fault)
    \/ \E fault \in BOOLEAN : Clear(fault)
    \/ \E item \in Items : Writer_Create(item)
    \/ \E id \in UserIds : Writer_DeleteById(id)
    \/ Returned

SpecInterleaved == InitInterleaved /\ [][NextInterleaved]_vars

\* The rows a table of either variant can hold when other programs write to
\* it too: at most one per id, some with a value the entity cannot take
IsRelational(tbl) == \A r \in tbl : "data" \notin DOMAIN r
IsDocuments(tbl) == \A r \in tbl : "data" \in DOMAIN r
StoredRows == [id : UserIds, key : Keys \cup {Malformed}, content : Contents]
StoredDocs ==
    {[id |-> d["id"], data |-> d] :
        d \in UNION {{e \in [{"id"} \cup S -> UserIds \cup DocValues \cup {Malformed}] :
                         e["id"] \in UserIds /\ \A k \in S : e[k] \in DocValues \cup {Malformed}} :
                    S \in {{"a"}, {"a", "b"}}}}
TablesOf(rows) ==
    {UNION {f[i] : i \in UserIds} :
        f \in {g \in [UserIds -> {{}} \cup {{r} : r \in rows}] :
                  \A i \in UserIds : \A r \in g[i] : r.id = i}}
StoredTables == TablesOf(StoredRows) \cup TablesOf(StoredDocs)

\* SpecConvert: GetOneById of both variants on tables that other programs
\* wrote to as well
InitConvert ==
    /\ table \in StoredTables
    /\ nextId = 0
    /\ implementation = "persistence"
    /\ maxPageSize = DefaultMaxPageSize
    /\ call = [op |-> "None"]
    /\ ret = [item |-> ZeroItem, err |-> NoError]
    /\ pre = table
    /\ NoComponents

NextConvert ==
    \/ IsRelational(table) /\ \E id \in UserIds : GetOneById(id)
    \/ IsDocuments(table) /\ \E id \in UserIds : Json_GetOneById(id)
    \/ Return

SpecConvert == InitConvert /\ [][NextConvert]_vars

\* Patches for a table that has a column with a comma in its name
CommaPatches == {[c \in S |-> "B"] : S \in {{CommaColumn}, {"id", CommaColumn}}}

\* SpecBuilder: the statements the writing handlers build, for every entity,
\* every patch and every iteration order of the row projection's keys
InitBuilder ==
    /\ table = {}
    /\ nextId = 0
    /\ implementation \in {"persistence", "part_003"}
    /\ maxPageSize = DefaultMaxPageSize
    /\ call = [op |-> "None"]
    /\ ret = [item |-> ZeroItem, err |-> NoError]
    /\ pre = {}
    /\ NoComponents

NextBuilder ==
    \/ \E item \in Items, order \in Perms(Columns) : BuildCreate(item, order)
    \/ \E item \in Items, order \in Perms(Columns) : BuildSet(item, order)
    \/ \E item \in Items, order \in Perms(Columns) : BuildUpdate(item, order)
    \/ \E id \in KnownIds, data \in Patches \cup CommaPatches :
        \E order \in Perms(DOMAIN data) : BuildUpdatePartially(id, data, order)
    \/ Return

SpecBuilder == InitBuilder /\ [][NextBuilder]_vars

\* SpecIndex: EnsureIndex calls of a DefineSchema override, on the empty queue
\* and on the queue that holds the CREATE TABLE statement
InitIndex ==
    /\ table = {}
    /\ nextId = 0
    /\ implementation = "part_003"
    /\ maxPageSize = DefaultMaxPageSize
    /\ call = [op |-> "None"]
    /\ ret = [item |-> ZeroItem, err |-> NoError]
    /\ pre = {}
    /\ NoComponents

NextIndex ==
    \/ \E queue \in {<<>>, <<CreateTable>>}, given \in IndexKeys, options \in IndexOptions :
        Persistence_EnsureIndex(queue, given, options)
    \/ Return

SpecIndex == InitIndex /\ [][NextIndex]_vars

\* SpecReferences: two instances that are given their references, lose
\* them, and are opened and closed in any order; the references hold the
\* shared connection, which its owner has opened, or no connection
InheritPostgresPersistence(schema) ==
    [NewPersistence(NULL, FALSE, schema) EXCEPT !.Connection = NULL]

InitReferences ==
    /\ table = {}
    /\ nextId = 0
    /\ implementation = "persistence"
    /\ maxPageSize = DefaultMaxPageSize
    /\ call = [op |-> "None"]
    /\ ret = [item |-> ZeroItem, err |-> NoError]
    /\ pre = {}
    /\ conns = [c \in ConnNames |->
                    IF c = "shared"
                    THEN [Configured EXCEPT !.Connection = 1, !.DatabaseName = "test"]
                    ELSE Configured]
    /\ pools = {1}
    /\ poolCount = 1
    /\ pers = [i \in Instances |-> InheritPostgresPersistence(<<CreateTable, EnsureIndex>>)]
    /\ catalog = {}
    /\ executed = <<>>
    /\ opening = <<>>

NextReferences ==
    \/ \E i \in Instances, dep \in {NULL, "shared"} : SetReferences(i, dep)
    \/ \E i \in Instances : UnsetReferences(i)
    \/ \E i \in Instances, up \in BOOLEAN, fault \in BOOLEAN : Open(i, up, fault)
    \/ \E i \in Instances : Close(i)
    \/ Return

SpecReferences == InitReferences /\ [][NextReferences]_vars

\* ------------------------------------------------------------------ claims
\* The row a table holds for an entity
RowOf(item) == [id |-> item.id, key |-> item.key, content |-> item.content]

\* The id a key-addressed call names
TargetId ==
    IF call.op = "Update" THEN call.item.id ELSE call.id

\* C1: Create of an entity with no id stores it under a freshly generated,
\* non-empty id and returns it, and GetOneById of that id on the table Create
\* left returns an entity equal to the one Create returned; Create of an entity
\* whose preset id is not stored yet stores and returns it under that id,
\* unchanged.
C1_CreateThenGetOneById ==
    call.op = "Create" =>
        IF IsUnset(call.item.id)
        THEN /\ ret.err = NoError
             /\ ret.item.id \notin {"", NULL}
             /\ ret.item.id \notin Ids(pre)
             /\ ret.item = [call.item EXCEPT !.id = ret.item.id]
             /\ table = pre \cup {RowOf(ret.item)}
             /\ OneById(table, ret.item.id) = [item |-> ret.item, err |-> NoError]
        ELSE call.item.id \notin Ids(pre) =>
             /\ ret = [item |-> call.item, err |-> NoError]
             /\ table = pre \cup {RowOf(call.item)}
             /\ OneById(table, call.item.id) = [item |-> call.item, err |-> NoError]

\* C1 witness: a Create of an entity with no id has stored it, next to another row
C1_Witness ==
    /\ call.op = "Create"
    /\ call.item.id = ""
    /\ ret.err = NoError
    /\ ret.item.id = NextId(0)
    /\ Cardinality(table) = 2
    /\ RowOf(ret.item) \in table

\* C3: Update(item) with item.id = X on a table holding row X replaces that row
\* with the item's values and returns the row as updated; every row with
\* another id is unchanged, and so is the number of rows.
C3_UpdateFrame ==
    (call.op = "Update" /\ call.item.id \in Ids(pre)) =>
        /\ ret = [item |-> call.item, err |-> NoError]
        /\ RowOf(call.item) \in table
        /\ \A r \in pre : r.id # call.item.id => r \in table
        /\ \A r \in table : r.id # call.item.id => r \in pre
        /\ Cardinality(table) = Cardinality(pre)
        /\ Cardinality({r \in table : r.id = call.item.id}) = 1

\* C3 witness: an Update has changed the key of one of two stored rows
C3_Witness ==
    /\ call.op = "Update"
    /\ call.item.id \in Ids(pre)
    /\ Cardinality(pre) = 2
    /\ RowOf(call.item) \notin pre
    /\ RowOf(call.item) \in table

\* C4: GetOneById, Update, UpdatePartially and DeleteById of an id that is not
\* stored return the zero-value entity and no error and leave the table as it
\* was; Update inserts nothing.
C4_MissingId ==
    (call.op \in {"GetOneById", "Update", "UpdatePartially", "DeleteById"}
        /\ TargetId \notin Ids(pre)) =>
        /\ ret = [item |-> ZeroItem, err |-> NoError]
        /\ table = pre

\* C4 witness: an Update named an id that a non-empty table does not hold
C4_Witness ==
    /\ call.op = "Update"
    /\ call.item.id \in UserIds
    /\ call.item.id \notin Ids(pre)
    /\ pre # {}
    /\ ret.item = ZeroItem

\* C2: after any sequence of Create, Set, Update, UpdatePartially, DeleteById
\* and DeleteByIds calls no two stored rows have the same id and no stored row
\* has a null or an empty id; a Create whose id is already stored fails and
\* leaves the table as it was.
C2_UniqueNonEmptyIds ==
    /\ \A r1, r2 \in table : r1.id = r2.id => r1 = r2
    /\ \A r \in table : r.id \notin {NULL, ""}
    /\ (call.op = "Create" /\ call.item.id \in Ids(pre)) =>
            (ret.err # NoError /\ table = pre)

\* C5: Set of an entity with no id generates a non-empty id, stores the entity
\* under it and returns it: the table and the result are those Create gives
\* for that entity.
C5_SetWithoutIdIsCreate ==
    (call.op = "Set" /\ IsUnset(call.item.id)) =>
        /\ ret.err = NoError
        /\ ret.item.id \notin {"", NULL}
        /\ ret.item = [call.item EXCEPT !.id = ret.item.id]
        /\ table = pre \cup {RowOf(ret.item)}
        /\ \A order \in Perms(Columns) :
            LET created == BaseCreate(pre, GenerateObjectIdIfNotExists(call.item, nextId - 1), order)
            IN table = created.tbl /\ ret = OneRow(created)

\* C6: Set of an entity whose id is present succeeds and returns the entity;
\* a second Set of the same entity leaves the table as the first left it and
\* returns the same entity; when the id was already stored, Set gives the
\* table and the result Update gives, and the number of rows does not change.
C6_SetIdempotent ==
    (call.op = "Set" /\ ~IsUnset(call.item.id)) =>
        /\ ret = [item |-> call.item, err |-> NoError]
        /\ RowOf(call.item) \in table
        /\ \A order \in Perms(Columns) :
            LET again == SetStatement(table, call.item, nextId, order)
            IN again.tbl = table /\ OneRow(again) = ret
        /\ call.item.id \in Ids(pre) =>
            /\ Cardinality(table) = Cardinality(pre)
            /\ \A order \in Perms(Columns) :
                LET updated == UpdateStatement(pre, call.item, order)
                IN table = updated.tbl /\ ret = OneRow(updated)

\* C6 witness: a Set has overwritten the key of one of two stored rows
C6_Witness ==
    /\ call.op = "Set"
    /\ call.item.id \in Ids(pre)
    /\ RowOf(call.item) \notin pre
    /\ RowOf(call.item) \in table
    /\ Cardinality(pre) = 2
    /\ Cardinality(table) = 2

\* C7: with no write in between, GetPageByFilter(filter, paging) returns at
\* most paging.take items, each a stored row matching the filter; when the
\* total is requested it issues two queries and the total is the count
\* GetCountByFilter(filter) returns on the same table; when it is not, it
\* issues the item query alone and the page carries no total.
C7_PageAndTotal ==
    call.op = "GetPageByFilter" =>
        /\ ret.err = NoError
        /\ Len(ret.items) <= call.paging.take
        /\ \A i \in 1..Len(ret.items) :
            \E r \in table :
                /\ call.filter = NoFilter \/ r.key = call.filter
                /\ ret.items[i] = [id |-> r.id, key |-> r.key, content |-> r.content]
        /\ IF call.paging.total
           THEN ret.total = CountByFilter(table, call.filter).count /\ ret.queries = 2
           ELSE ret.total = EmptyTotalValue /\ ret.queries = 1

\* C7 witness: a page of one item out of two matching rows among three, with the total
C7_Witness ==
    /\ call.op = "GetPageByFilter"
    /\ call.filter = "A"
    /\ call.paging = [skip |-> 0, take |-> 1, total |-> TRUE]
    /\ Cardinality(table) = 3
    /\ Len(ret.items) = 1
    /\ ret.total = 2

\* C8: DeleteByIds(ids) removes the stored rows whose id is in ids and no
\* other row, and completes without error; with an empty ids it removes nothing
\* and completes without error.
C8_DeleteByIds ==
    call.op = "DeleteByIds" =>
        /\ ret.err = NoError
        /\ table = {r \in pre : r.id \notin Range(call.ids)}

\* C9: GetCountByFilter(filter) returns the number of stored rows matching the
\* filter; DeleteById of a stored row returns that row, removes it and no
\* other, and lowers by one the count of every filter the row matched, leaving
\* the other counts as they were.
C9_CountAndDeleteById ==
    /\ call.op = "GetCountByFilter" =>
        ret = [count |-> Cardinality({r \in table : call.filter = NoFilter \/ r.key = call.filter}),
               err |-> NoError]
    /\ (call.op = "DeleteById" /\ call.id \in Ids(pre)) =>
        \E r \in pre :
            /\ r.id = call.id
            /\ ret = [item |-> [id |-> r.id, key |-> r.key, content |-> r.content], err |-> NoError]
            /\ table = pre \ {r}
            /\ \A f \in Filters :
                CountByFilter(table, f).count =
                    CountByFilter(pre, f).count - (IF f = NoFilter \/ r.key = f THEN 1 ELSE 0)

\* C9 witness: of three rows with the keys A, B, A, DeleteById has removed an
\* A row: the count of key='A' was 2 and is 1
C9_Witness ==
    /\ call.op = "DeleteById"
    /\ Cardinality(pre) = 3
    /\ CountByFilter(pre, "A").count = 2
    /\ CountByFilter(pre, "B").count = 1
    /\ ret.item.key = "A"
    /\ CountByFilter(table, "A").count = 1
    /\ CountByFilter(table, "B").count = 1

\* C10: with no write in between, GetOneRandom(filter) returns the zero-value
\* entity and no error when no stored row matches the filter; otherwise it
\* returns a stored row matching the filter, fetched at an offset in
\* [0, count), count being the number of matching rows.
C10_OneRandom ==
    call.op = "GetOneRandom" =>
        LET matching == {r \in table : call.filter = NoFilter \/ r.key = call.filter}
        IN /\ ret.err = NoError
           /\ IF matching = {} THEN ret.item = ZeroItem
              ELSE /\ ret.count = Cardinality(matching)
                   /\ ret.pos \in 0..(ret.count - 1)
                   /\ \E r \in matching :
                        ret.item = [id |-> r.id, key |-> r.key, content |-> r.content]

\* C10 witness: GetOneRandom has fetched the second of two rows matching key='A'
C10_Witness ==
    /\ call.op = "GetOneRandom"
    /\ call.filter = "A"
    /\ Cardinality(table) = 3
    /\ ret.count = 2
    /\ ret.pos = 1
    /\ ret.item.key = "A"

\* C12: in the relational variant UpdatePartially(id, patch) on a stored row
\* assigns the columns the patch names and no other, leaves every other row as
\* it was, and returns the row it wrote, without error.
C12_UpdatePartiallyFrame ==
    (call.op = "UpdatePartially" /\ call.id \in Ids(pre)) =>
        \E old \in pre :
            /\ old.id = call.id
            /\ LET new == [c \in Columns |->
                            IF c \in DOMAIN call.data THEN call.data[c] ELSE old[c]]
               IN /\ table = (pre \ {old}) \cup {new}
                  /\ ret = [item |-> ConvertToPublic(new), err |-> NoError]

\* C11: in the document variant UpdatePartially(id, patch) on a stored document
\* leaves a document in which every key of the patch has the patch's value and
\* every other key has the value it had, leaves the other documents as they
\* were, and returns the merged entity without error.
C11_JsonShallowMerge ==
    (call.op = "UpdatePartially" /\ call.id \in Ids(pre)) =>
        \E old \in pre, new \in table :
            /\ old.id = call.id
            /\ new.id = call.id
            /\ DOMAIN new.data = DOMAIN old.data \cup DOMAIN call.data
            /\ \A k \in DOMAIN call.data : new.data[k] = call.data[k]
            /\ \A k \in DOMAIN old.data \ DOMAIN call.data : new.data[k] = old.data[k]
            /\ table = (pre \ {old}) \cup {new}
            /\ ret = [item |-> new.data, err |-> NoError]

\* C11 witness: the document {id:"1", a:"1", b:"2"} patched with {b:"5"} is
\* stored and returned as {id:"1", a:"1", b:"5"}
C11_Witness ==
    /\ call.op = "UpdatePartially"
    /\ call.id = "1"
    /\ call.data = [k \in {"b"} |-> "5"]
    /\ [id |-> "1", data |-> [id |-> "1", a |-> "1", b |-> "2"]] \in pre
    /\ [id |-> "1", data |-> [id |-> "1", a |-> "1", b |-> "5"]] \in table
    /\ ret.item = [id |-> "1", a |-> "1", b |-> "5"]

\* C13: when the connection string does not resolve or the pool cannot be
\* established, PostgresConnection.Open returns a ConnectionError, has called
\* the pool constructor at most once, and the component holds no pool.
C13_OpenFailureIsConnectionError ==
    (call.op = "Connection.Open"
        /\ \/ ~pre.conns[call.conn].config.resolves
           \/ (pre.conns[call.conn].config.parses /\ ~call.up)) =>
        /\ ret.err = ConnectionError
        /\ ret.attempts <= 1
        /\ ~IsOpen(conns[call.conn])

\* C14: when PostgresConnection.Open returns no error, IsOpen() is true, the
\* pool handle is not nil and the database name is not empty; in every state
\* IsOpen() is true exactly when the component holds a pool handle, and the
\* pool it holds is established and not closed.
C14_OpenedAfterOpen ==
    /\ (call.op = "Connection.Open" /\ ret.err = NoError) =>
            /\ IsOpen(conns[call.conn])
            /\ conns[call.conn].Connection # NoPool
            /\ conns[call.conn].DatabaseName # ""
    /\ \A c \in DOMAIN conns :
            /\ IsOpen(conns[c]) <=> conns[c].Connection # NoPool
            /\ IsOpen(conns[c]) => conns[c].Connection \in pools

\* C15: PostgresConnection.Close returns no error and leaves the component
\* with no pool handle and no database name, so that IsOpen() is false; the
\* pool it held is closed and no other; on a component that holds no pool it
\* changes nothing. This holds after any sequence of Open and Close calls.
C15_CloseClears ==
    call.op = "Connection.Close" =>
        /\ ret.err = NoError
        /\ ~IsOpen(conns[call.conn])
        /\ conns[call.conn].Connection = NoPool
        /\ conns[call.conn].DatabaseName = ""
        /\ conns[call.conn].config = pre.conns[call.conn].config
        /\ IF pre.conns[call.conn].Connection = NoPool
           THEN conns = pre.conns /\ pools = pre.pools
           ELSE pools = pre.pools \ {pre.conns[call.conn].Connection}

\* C15 witness: Close has released the pool a second Open had established
C15_Witness ==
    /\ call.op = "Connection.Close"
    /\ pre.conns[call.conn].Connection = 2
    /\ pre.conns[call.conn].DatabaseName = "prod"
    /\ 2 \in pre.pools
    /\ 2 \notin pools
    /\ conns[call.conn].DatabaseName = ""

\* C16: persistence Close closes the connection when the instance is opened
\* and created the connection itself, and in no other case; with a connection
\* taken from the references neither Open nor Close of the persistence changes
\* any connection or pool, and Close leaves every other instance as it was: a
\* query through an instance sharing the connection gives what it gave before.
C16_SharedConnectionUntouched ==
    /\ call.op = "Persistence.Close" =>
        LET i == call.instance
            me == pre.pers[i]
            c == me.Connection
        IN /\ ret.err = NoError
           /\ IF me.opened /\ me.localConnection
              THEN /\ ~IsOpen(conns[c])
                   /\ pools = pre.pools \ {pre.conns[c].Connection}
                   /\ \A d \in DOMAIN conns \ {c} : conns[d] = pre.conns[d]
              ELSE conns = pre.conns /\ pools = pre.pools
           /\ \A j \in Instances \ {i} :
                /\ pers[j] = pre.pers[j]
                /\ (~me.localConnection /\ pers[j].Connection = c) =>
                    ClientQuery(pers[j], pools, catalog)
                        = ClientQuery(pre.pers[j], pre.pools, pre.catalog)
    /\ (call.op = "Persistence.Open" /\ ~pre.pers[call.instance].localConnection) =>
        conns = pre.conns /\ pools = pre.pools

\* C16 witness: of two opened instances on the shared connection the first has
\* been closed; the connection is still open and the second still answers
C16_Witness ==
    /\ call.op = "Persistence.Close"
    /\ call.instance = 1
    /\ pre.pers[1].opened
    /\ ~pers[1].opened
    /\ ~pers[1].localConnection
    /\ pers[2].opened
    /\ pers[2].Connection = pers[1].Connection
    /\ IsOpen(conns["shared"])
    /\ ClientQuery(pers[2], pools, catalog).err = NoError

\* C17: a CRUD operation on an instance that is not opened (never opened, not
\* opened with success, or closed) returns an invalid-state error and sends no
\* statement.
C17_NotOpenedIsInvalidState ==
    (call.op = "Persistence.GetCountByFilter" /\ ~pre.pers[call.instance].opened) =>
        /\ ret.err = InvalidStateError
        /\ ~ret.sent

\* The schema statements the instance i has sent so far, in the order sent
SentBy(i) ==
    LET mine == SelectSeq(executed, LAMBDA e : e.instance = i)
    IN [k \in 1..Len(mine) |-> mine[k].statement]

\* Whether a schema statement of the instance i has failed
FailedFor(i) == \E k \in 1..Len(executed) :
                    executed[k].instance = i /\ executed[k].err # NoError

C19_FailedStatementSwallowed ==
    \A i \in Instances :
        FailedFor(i) =>
            /\ opening[i].pc = "creating" =>
                SentBy(i) = SubSeq(pers[i].schemaStatements, 1, opening[i].next - 1)
            /\ opening[i].pc \in {"done", "ready"} =>
                /\ opening[i].err = NoError
                /\ pers[i].opened
                /\ pers[i].Client # NoPool
                /\ SentBy(i) = pers[i].schemaStatements

\* C19 witness: the index statement failed, the table statement after it was
\* sent, and Open returned no error with the table created and no index
C19_Witness ==
    /\ opening[1].pc = "done"
    /\ opening[1].err = NoError
    /\ pers[1].opened
    /\ executed = <<[instance |-> 1, statement |-> EnsureIndex, err |-> UndefinedTable],
                    [instance |-> 1, statement |-> CreateTable, err |-> NoError]>>
    /\ catalog = {TableName}

\* C20: nothing makes an instance's Open wait for another instance's: an
\* instance that is not in Open can enter it and run the catalog query, and an
\* instance inside CreateSchema can take its next step, whatever the other
\* instance is doing; two instances that both found the table absent both send
\* all their statements.
C20_NoMutualExclusion ==
    /\ \A i \in Instances :
        /\ opening[i].pc = "ready" => ENABLED OpenBegin(i, FALSE)
        /\ opening[i].pc = "creating" => ENABLED (ExecNext(i) \/ OpenEnd(i))
    /\ (\A i \in Instances : opening[i].pc = "done" /\ opening[i].observed = "absent") =>
        \A i \in Instances : SentBy(i) = pers[i].schemaStatements

\* C20 witness: both instances found the table absent and both sent their
\* CREATE TABLE; the second one to arrive was refused
C20_Witness ==
    /\ \A i \in Instances : opening[i].observed = "absent" /\ ~opening[i].existed
    /\ \E k1, k2 \in 1..Len(executed) :
        /\ executed[k1] = [instance |-> 1, statement |-> CreateTable, err |-> NoError]
        /\ executed[k2] = [instance |-> 2, statement |-> CreateTable, err |-> DuplicateTable]

\* C21: nothing holds the table still between the two queries of one
\* GetPageByFilter call with total requested: another caller's Create and
\* DeleteById can run in between, and the total the call returns is the number
\* of rows matching the filter when the count query runs, whatever the state
\* its items were read from.
C21_TotalFromLaterState ==
    /\ (call.op = "GetPageByFilter" /\ call.pc = "counting") =>
        /\ \A id \in UserIds : ENABLED Writer_DeleteById(id)
        /\ \A item \in Items : ~IsUnset(item.id) => ENABLED Writer_Create(item)
    /\ (call.op = "GetPageByFilter" /\ call.pc = "done"
            /\ call.paging.total /\ call.failed = 0) =>
        /\ ret.queries = 2
        /\ ret.total = Cardinality(Matching(ret.countedOn, call.filter))

\* C21 witness: a call returned every row that matched when its items were
\* read, and a total that is not their number
C21_Witness ==
    /\ call.op = "GetPageByFilter"
    /\ call.pc = "done"
    /\ call.paging.total
    /\ call.failed = 0
    /\ Len(ret.items) = Cardinality(Matching(pre, call.filter))
    /\ Len(ret.items) > 0
    /\ ret.total # Cardinality(Matching(pre, call.filter))

\* C22: GetOneRandom fetches at its offset in the table as it is when the
\* fetch query runs, not as it was counted.  When fewer matching rows are left
\* than the offset needs, the call returns the zero value and no error; else it
\* returns a row matching at fetch time, and a row that was inserted after the
\* count can be the one returned.
C22_OffsetIntoLaterState ==
    /\ (call.op = "GetOneRandom" /\ call.pc = "done"
            /\ call.failed = 0 /\ ret.count > 0) =>
        LET left == Cardinality(Matching(ret.fetchedOn, call.filter))
        IN /\ Matching(pre, call.filter) # {}
           /\ ret.err = NoError
           /\ ret.pos >= left => ret.item = ZeroItem
           /\ ret.pos < left => RowOf(ret.item) \in Matching(ret.fetchedOn, call.filter)
    /\ (call.op = "GetOneRandom" /\ call.pc = "fetching") =>
        \A r \in Matching(table, call.filter) \ pre :
            ret.pos < Cardinality(Matching(table, call.filter)) =>
                ENABLED (GetOneRandom_fetch(FALSE) /\ ret'.item = ConvertToPublic(r))

\* C22 witness: rows matched when the call counted, the rows were deleted
\* before it fetched, and it returned the zero value and no error
C22_Witness ==
    /\ call.op = "GetOneRandom"
    /\ call.pc = "done"
    /\ call.failed = 0
    /\ ret.count > 0
    /\ Matching(pre, call.filter) # {}
    /\ ret.item = ZeroItem
    /\ ret.err = NoError

\* C23: a call in which a statement failed returns the error of that
\* statement as the driver raised it (in GetPageByFilter, GetOneRandom and
\* Clear alike)
C23_FirstQueryErrorVerbatim ==
    (call.op \in {"GetPageByFilter", "GetOneRandom", "Clear"}
        /\ call.pc = "done" /\ call.failed # 0) =>
        ret.err = QueryFailed

\* C24: in both variants, GetOneById of a row that is stored but cannot be
\* decoded into the entity returns the zero value and no error, which is what
\* it returns when no row has the id.
C24_UndecodableRowIsZeroValue ==
    /\ (call.op = "GetOneById"
            /\ \E r \in pre : r.id = call.id /\ Undecodable(r)) =>
        /\ ret = [item |-> ZeroItem, err |-> NoError]
        /\ ret = OneById({r \in pre : r.id # call.id}, call.id)
    /\ (call.op = "Json.GetOneById"
            /\ \E r \in pre : r.id = call.id /\ Undecodable(r.data)) =>
        /\ ret = [item |-> ZeroDoc, err |-> NoError]
        /\ ret = Json_OneById({r \in pre : r.id # call.id}, call.id)

\* C24 witness: the row with the id asked for is stored with a key that the
\* entity cannot take, and GetOneById returned the zero value and no error
C24_Witness ==
    /\ call.op = "GetOneById"
    /\ \E r \in pre : r.id = call.id /\ r.key = Malformed
    /\ ret = [item |-> ZeroItem, err |-> NoError]

\* C25: in every statement Create, Set, Update and UpdatePartially build, for
\* every row projection and every iteration order of its keys: the column list
\* names every key of the projection once; VALUES has one placeholder for
\* each column and the SET list one entry for each column; the value bound to
\* the placeholder of a column is the projection's value for that column; and
\* the WHERE clause of Update and UpdatePartially uses the last placeholder,
\* to which the id is bound.
C25_PlaceholdersBound ==
    (call.op \in {"Create", "Set", "Update", "UpdatePartially"} /\ ret.values # <<Panic>>) =>
        /\ Range(ret.columns) = DOMAIN ret.row
        /\ Len(ret.columns) = Cardinality(DOMAIN ret.row)
        /\ call.op \in {"Create", "Set"} =>
            /\ Len(ret.params) = Len(ret.columns)
            /\ Len(ret.values) = Len(ret.columns)
            /\ \A j \in 1..Len(ret.params) :
                /\ ret.params[j] = j
                /\ ret.values[ret.params[j]] = ret.row[ret.columns[j]]
        /\ call.op # "Create" =>
            /\ Len(ret.setParams) = Len(ret.columns)
            /\ \A j \in 1..Len(ret.setParams) :
                /\ ret.setParams[j] = <<ret.columns[j], j>>
                /\ ret.values[j] = ret.row[ret.columns[j]]
        /\ call.op \in {"Update", "UpdatePartially"} =>
            /\ ret.where = Len(ret.columns) + 1
            /\ ret.where = Len(ret.values)
            /\ ret.values[ret.where] = ret.id
            /\ ret.id = IF call.op = "Update" THEN call.item.id ELSE call.id

\* C26: EnsureIndex adds exactly one statement to the queue, a guarded
\* CREATE INDEX with the given name on the table, whose keys stand in the order
\* the caller gave them, each followed by DESC exactly when its direction is
\* not "1", and which is UNIQUE exactly when the unique option is enabled.
C26_EnsureIndexStatement ==
    call.op = "EnsureIndex" =>
        LET queue == ret.schemaStatements
            stmt == queue[Len(queue)]
        IN /\ Len(queue) = Len(call.queue) + 1
           /\ SubSeq(queue, 1, Len(call.queue)) = call.queue
           /\ stmt.op = "CREATE INDEX" /\ stmt.guard
           /\ stmt.name = call.name /\ stmt.on = TableName
           /\ stmt.type = call.options.type
           /\ stmt.fields = [i \in 1..Len(call.keys) |->
                                <<call.keys[i][1], call.keys[i][2] # "1">>]
           /\ stmt.unique <=> (call.options.unique = "true")

\* C27: after any sequence of SetReferences, UnsetReferences and Open calls,
\* an instance that has a connection treats it as its own exactly when the
\* instance created it, that is when it did not come from the references.
C27_LocalIffCreated ==
    \A i \in Instances :
        pers[i].Connection # NULL =>
            (pers[i].localConnection <=> pers[i].Connection = LocalConn(i))

\* C28: when Open of a persistence instance returns an error, the instance
\* is not opened and the connection it owns is not open.
C28_FailedOpenLeavesNothingOpen ==
    (call.op = "Persistence.Open" /\ ret.err # NoError) =>
        LET me == pers[call.instance]
        IN /\ ~me.opened
           /\ me.localConnection => ~IsOpen(conns[me.Connection])

\* C29: between calls, an instance is opened exactly when it holds a client
\* pool handle; Open of an opened instance and Close of an instance that is
\* not opened return no error and change nothing.
C29_OpenedIffClient ==
    /\ \A i \in Instances : Persistence_IsOpen(pers[i]) <=> pers[i].Client # NoPool
    /\ (call.op = "Persistence.Open" /\ pre.pers[call.instance].opened) =>
        /\ ret.err = NoError
        /\ <<conns, pools, pers, catalog, executed>> =
                <<pre.conns, pre.pools, pre.pers, pre.catalog, pre.executed>>
    /\ (call.op = "Persistence.Close" /\ ~pre.pers[call.instance].opened) =>
        /\ ret.err = NoError
        /\ <<conns, pools, pers, catalog, executed>> =
                <<pre.conns, pre.pools, pre.pers, pre.catalog, pre.executed>>

\* C29 witness: Open was called on an instance that was opened on a failing
\* server; it returned no error and the instance still holds its client
C29_Witness ==
    /\ call.op = "Persistence.Open"
    /\ ~call.up
    /\ pre.pers[call.instance].opened
    /\ pers[call.instance].opened
    /\ pers[call.instance].Client # NoPool
    /\ ret.err = NoError

\* C30: in the document variant, the id column of every stored row is the
\* id inside the row's data document, whatever calls were made before.
C30_IdColumnIsDataId ==
    \A r \in table : r.id = GetObjectId(r.data)

====
